---- MODULE Spec2Model ----
(***************************************************************************)
(* Verification model of the AI-Coding-Agent runner:                       *)
(*   - the record store (runs, patches) and the edge functions that write  *)
(*     it (supabase/functions/runner, runs, patches);                      *)
(*   - the local worker (apps/runner/src/runner.ts, tools/verify.ts,       *)
(*     tools/patch.ts);                                                    *)
(*   - the patch engine's pure parts (validatePath, validatePatch,         *)
(*     applyDiff).                                                         *)
(* Text is modelled as a sequence of tokens; a token stands for a fixed    *)
(* piece of a string ("/", ".", "env", ...), chosen so that no token is    *)
(* spelled with the characters of another: equality, prefix, suffix and    *)
(* substring tests on token sequences agree with the tests on the strings. *)
(***************************************************************************)
EXTENDS Integers, Sequences, FiniteSets, TLC

VARIABLES
    \* --- validatePath called on one target path
    vpCfg,        \* the patch constraints in force
    vpPath,       \* the target path
    vpResult,     \* validatePath's result, once vpPc = "done"
    vpPc,         \* "off" | "call" | "done"
    \* --- one apply attempt of the approval watcher on one patch record
    apCfg,        \* the patch constraints in force
    apPatch,      \* the patch record read from the store
    apFs0,        \* the repository files before the attempt
    apFs,         \* the repository files now
    apResult,     \* applyDiff's result, once apPc = "applied" or "failed"
    apPc,         \* "off" | "check" | "threw" | "rejected" | "applied" | "failed"
    apEvent,      \* the ERROR event the attempt posted
    \* --- the record store
    runStatus,    \* runs.status of every run
    patches,      \* the rows of the patches table, by patch id
    \* --- the edge functions: one request in flight per caller slot
    req,          \* the request a slot's handler is serving, and where it is
    extOps,       \* requests and inserts made so far by outside callers
    \* --- the workers
    wpc,          \* where each worker's poll tick / executeRun is
    wrun,         \* the run that tick is about
    isProcessing, \* runner.ts: let isProcessing
    currentRun,   \* runner.ts: let currentRun (0 for null)
    verifyResults,\* the exit codes runVerification collected
    watching,     \* the runs whose approval watcher interval is registered
    tick,         \* each worker's checkApprovals call in progress
    wfs,          \* each worker's repository files
    applyLog,     \* every applyDiff call made by a watcher, in a set
    \* --- history
    grantedById,  \* per run: claim-run responses with the run, runId given
    grantedOldest,\* per run: claim-run responses with the run, no runId
    \* --- what the worker reports
    events,       \* the run_events rows posted: RUN_FAILED, ERROR, REJECTED
    runError,     \* runs.error of every run
    thrown,       \* the message of the error executeRun's catch block holds
    validatedPatches, \* the patches a validatePatch call has passed
    \* --- a pure function applied to one input
    fnArg,        \* the input
    fnRes,        \* the function's result, once fnPc = "done"
    fnPc,         \* "off" | "call" | "done"
    \* --- overlapping poll ticks of one worker
    pollPc,       \* where each tick is
    pollRun,      \* the run a tick fetched
    pollStatus,   \* runs.status of every run
    pollBusy,     \* runner.ts: let isProcessing
    pollCurrent   \* runner.ts: let currentRun (0 for null)

pathVars == << vpCfg, vpPath, vpResult, vpPc >>
applyVars == << apCfg, apPatch, apFs0, apFs, apResult, apPc, apEvent >>
storeVars == << runStatus, patches >>
workerVars == << wpc, wrun, isProcessing, currentRun, verifyResults, watching,
                tick, wfs, applyLog >>
histVars == << grantedById, grantedOldest >>
logVars == << events, runError, thrown, validatedPatches >>
fnVars == << fnArg, fnRes, fnPc >>
pollVars == << pollPc, pollRun, pollStatus, pollBusy, pollCurrent >>
sysVars == << runStatus, patches, req, extOps, wpc, wrun, isProcessing,
             currentRun, verifyResults, watching, tick, wfs, applyLog,
             grantedById, grantedOldest, events, runError, thrown,
             validatedPatches >>
vars == << vpCfg, vpPath, vpResult, vpPc,
           apCfg, apPatch, apFs0, apFs, apResult, apPc, apEvent,
           runStatus, patches, req, extOps, wpc, wrun, isProcessing,
           currentRun, verifyResults, watching, tick, wfs, applyLog,
           grantedById, grantedOldest ,
           events, runError, thrown, validatedPatches,
           fnArg, fnRes, fnPc,
           pollPc, pollRun, pollStatus, pollBusy, pollCurrent >>

(***************************************************************************)
(* Bounds of the model.                                                    *)
(***************************************************************************)
\* longest target path (in tokens) handed to validatePath
MaxPathLen == 5
\* most files in the patch record of one apply attempt
MaxPatchFiles == 2
\* runs in the store
NumRuns == 1
\* worker processes
NumWorkers == 1
\* outside callers of the edge functions with a request in flight
NumClients == 2
\* patch rows made by others than the orchestrator
MaxExtPatches == 1
\* requests and inserts by outside callers in one behaviour
MaxExtOps == 3

(***************************************************************************)
(* String helpers (String.prototype.startsWith / endsWith / includes).     *)
(***************************************************************************)
StartsWith(s, p) ==
    Len(p) <= Len(s) /\ SubSeq(s, 1, Len(p)) = p

EndsWith(s, p) ==
    Len(p) <= Len(s) /\ SubSeq(s, Len(s) - Len(p) + 1, Len(s)) = p

Includes(s, p) ==
    \E i \in 1..(Len(s) - Len(p) + 1) : SubSeq(s, i, i + Len(p) - 1) = p

\* the segments of a path: the pieces between "/" (empty pieces kept)
RECURSIVE SplitSlash(_)
SplitSlash(s) ==
    IF \A i \in 1..Len(s) : s[i] # "/" THEN << s >>
    ELSE LET k == CHOOSE i \in 1..Len(s) :
                      s[i] = "/" /\ \A j \in 1..(i - 1) : s[j] # "/"
         IN  << SubSeq(s, 1, k - 1) >> \o SplitSlash(SubSeq(s, k + 1, Len(s)))

\* segments joined with "/"
RECURSIVE JoinSlash(_)
JoinSlash(segs) ==
    IF segs = << >> THEN << >>
    ELSE IF Len(segs) = 1 THEN segs[1]
    ELSE segs[1] \o << "/" >> \o JoinSlash(Tail(segs))

DotDot == << ".", "." >>

\* normalizeString of node:path for an absolute path: "." and empty
\* segments are dropped, ".." removes the segment before it and is dropped
\* at the root
RECURSIVE NormalizeSegs(_, _)
NormalizeSegs(segs, acc) ==
    IF segs = << >> THEN acc
    ELSE LET s == Head(segs) IN
         IF s = << >> \/ s = << "." >> THEN NormalizeSegs(Tail(segs), acc)
         ELSE IF s = DotDot
              THEN NormalizeSegs(Tail(segs),
                                 IF acc = << >> THEN acc
                                 ELSE SubSeq(acc, 1, Len(acc) - 1))
              ELSE NormalizeSegs(Tail(segs), Append(acc, s))

IsAbsolute(p) == Len(p) > 0 /\ p[1] = "/"

\* the segments of path.resolve(root, p), root an absolute path
ResolveSegs(root, p) ==
    IF IsAbsolute(p) THEN NormalizeSegs(SplitSlash(p), << >>)
    ELSE NormalizeSegs(SplitSlash(root) \o SplitSlash(p), << >>)

\* path.resolve(root, p) as text
PathResolve(root, p) == << "/" >> \o JoinSlash(ResolveSegs(root, p))

RECURSIVE CommonPrefixLen(_, _)
CommonPrefixLen(a, b) ==
    IF a = << >> \/ b = << >> THEN 0
    ELSE IF Head(a) = Head(b) THEN 1 + CommonPrefixLen(Tail(a), Tail(b))
    ELSE 0

\* path.relative(from, to), both resolved first: one ".." for every segment
\* of from below the common ancestor, then the rest of to
PathRelative(from, to) ==
    LET f == NormalizeSegs(SplitSlash(from), << >>)
        t == NormalizeSegs(SplitSlash(to), << >>)
        c == CommonPrefixLen(f, t)
    IN  JoinSlash([i \in 1..(Len(f) - c) |-> DotDot] \o SubSeq(t, c + 1, Len(t)))

\* path.extname: from the last "." of the last segment, unless that "." is
\* the segment's first character or the segment is ".."
ExtName(p) ==
    LET segs == SplitSlash(p)
        nonEmpty == { i \in 1..Len(segs) : segs[i] # << >> }
        base == IF nonEmpty = {} THEN << >>
                ELSE segs[CHOOSE i \in nonEmpty : \A j \in nonEmpty : j <= i]
        dots == { i \in 1..Len(base) : base[i] = "." }
    IN  IF dots = {} THEN << >>
        ELSE LET d == CHOOSE i \in dots : \A j \in dots : j <= i
             IN  IF d = 1 \/ base = DotDot THEN << >>
                 ELSE SubSeq(base, d, Len(base))

(***************************************************************************)
(* Patch constraints of the worker (config.patchConstraints, config.repoPath) *)
(***************************************************************************)
\* tokens target paths are spelled with
PathTokens == { "/", ".", "repo", "env", "png" }

\* repository roots: REPO_PATH as given, with or without a trailing slash
RepoPaths == { << "/", "repo" >>, << "/", "repo", "/" >> }

\* denylist entries and binary extensions a configuration is drawn from
DenyEntries == { << ".", "env" >>, << "repo" >> }
BinaryEntries == { << ".", "png" >> }

\* String.prototype.toLowerCase on a token sequence
ToLowerCase(s) == [i \in 1..Len(s) |-> IF s[i] = "PNG" THEN "png" ELSE s[i]]

\* a configuration: [repoPath, pathDenylist, binaryExtensions]
Configs ==
    [repoPath : RepoPaths, pathDenylist : SUBSET DenyEntries,
     binaryExtensions : SUBSET BinaryEntries]

\* the path traversal check of validatePath (patch.ts:44), mutated: only the
\* textual prefix test is kept
TraversalDetected_PrefixOnly(cfg, filePath) ==
    ~StartsWith(PathResolve(cfg.repoPath, filePath), cfg.repoPath)

\* the path traversal check of validatePath (patch.ts:40-44)
TraversalDetected(cfg, filePath) ==
    LET absolutePath == PathResolve(cfg.repoPath, filePath)
        relativePath == PathRelative(cfg.repoPath, absolutePath)
    IN  StartsWith(relativePath, DotDot) \/ ~StartsWith(absolutePath, cfg.repoPath)

\* the denylist test of validatePath (patch.ts:49-56)
InDenylist(cfg, filePath) ==
    LET relativePath ==
            PathRelative(cfg.repoPath, PathResolve(cfg.repoPath, filePath))
    IN  \E denied \in cfg.pathDenylist :
            \/ relativePath = denied
            \/ StartsWith(relativePath, denied \o << "/" >>)
            \/ Includes(relativePath, << "/" >> \o denied \o << "/" >>)
            \/ EndsWith(relativePath, << "/" >> \o denied)

\* the binary extension test of validatePath (patch.ts:59-62)
IsBinary(cfg, filePath) ==
    ToLowerCase(ExtName(filePath)) \in cfg.binaryExtensions

\* validatePath(filePath): the first failing check decides the error
validatePath(cfg, filePath) ==
    IF TraversalDetected(cfg, filePath)
    THEN [valid |-> FALSE, error |-> "Path traversal detected"]
    ELSE IF InDenylist(cfg, filePath)
    THEN [valid |-> FALSE, error |-> "Path is in denylist"]
    ELSE IF IsBinary(cfg, filePath)
    THEN [valid |-> FALSE, error |-> "Binary file not allowed"]
    ELSE [valid |-> TRUE, error |-> "none"]

(***************************************************************************)
(* The patch engine: validatePatch and applyDiff (tools/patch.ts).          *)
(* A repository file system is a function from the absolute paths of its   *)
(* files to their contents.  Contents are abstract: "base" is the text a   *)
(* sample diff was made against, "drift" any other text, "patched" what    *)
(* applyPatch returns on "base", "created" the added lines of a new file.  *)
(***************************************************************************)
DevNull == << "/", "dev", "/", "null" >>

\* fileName.replace(/^[ab]\//, '') of applyDiff and parseDiff
StripAB(name) ==
    IF Len(name) >= 2 /\ name[1] \in { "a", "b" } /\ name[2] = "/"
    THEN SubSeq(name, 3, Len(name))
    ELSE name

\* path.join(repoPath, p): the two texts joined with "/" and normalized
PathJoin(root, p) ==
    << "/" >> \o JoinSlash(NormalizeSegs(SplitSlash(root) \o SplitSlash(p), << >>))

\* fp is a directory of fs: the root, or an ancestor of one of its files
IsDirectory(cfg, fs, fp) ==
    \/ fp = PathJoin(cfg.repoPath, << >>)
    \/ \E f \in DOMAIN fs : StartsWith(f, fp \o << "/" >>)

\* a file of fs lies on the way to fp, so its parent cannot be made
BlockedByFile(fs, fp) ==
    \E f \in DOMAIN fs : StartsWith(fp, f \o << "/" >>)

\* mkdir(dirname) and writeFile succeed
CanWrite(cfg, fs, fp) ==
    ~IsDirectory(cfg, fs, fp) /\ ~BlockedByFile(fs, fp)

WriteFile(fs, fp, content) ==
    [f \in DOMAIN fs \cup { fp } |-> IF f = fp THEN content ELSE fs[f]]

\* the pre-validation of applyDiff (patch.ts:149-160): the errors of the
\* files that have a target path
RECURSIVE PreValidate(_, _)
PreValidate(cfg, filePatches) ==
    IF filePatches = << >> THEN << >>
    ELSE LET path == StripAB(Head(filePatches).newFileName)
             check == validatePath(cfg, path)
         IN  (IF path # << >> /\ ~check.valid THEN << check.error >> ELSE << >>)
                 \o PreValidate(cfg, Tail(filePatches))

\* one round of applyDiff's loop (patch.ts:167-222) on one file patch;
\* acc = [fs, errors, warnings, filesAffected]
ApplyOne(cfg, patch, acc) ==
    LET oldPath == StripAB(patch.oldFileName)
        newPath == StripAB(patch.newFileName)
        fullPath == PathJoin(cfg.repoPath, newPath)
    IN  IF newPath = << >>
        THEN [acc EXCEPT !.errors = Append(@, "Missing file path in patch")]
        ELSE IF oldPath = DevNull \/ oldPath = << >>
        THEN IF CanWrite(cfg, acc.fs, fullPath)
             THEN [acc EXCEPT !.fs = WriteFile(@, fullPath, "created"),
                              !.filesAffected = @ + 1]
             ELSE [acc EXCEPT !.errors = Append(@, "Error patching")]
        ELSE IF newPath = DevNull
        THEN [acc EXCEPT !.warnings = Append(@, "File deletion requested but skipped")]
        ELSE IF fullPath \notin DOMAIN acc.fs
        THEN [acc EXCEPT !.errors = Append(@, "File not found")]
        ELSE IF acc.fs[fullPath] # "base"
        THEN [acc EXCEPT !.errors = Append(@, "Failed to apply patch")]
        ELSE [acc EXCEPT !.fs = WriteFile(@, fullPath, "patched"),
                         !.filesAffected = @ + 1]

\* the mutant of ApplyLoop: the loop ends at the first file that fails
RECURSIVE ApplyLoop_StopOnError(_, _, _)
ApplyLoop_StopOnError(cfg, filePatches, acc) ==
    IF filePatches = << >> \/ acc.errors # << >> THEN acc
    ELSE ApplyLoop_StopOnError(cfg, Tail(filePatches),
                               ApplyOne(cfg, Head(filePatches), acc))

\* the loop of applyDiff over the file patches (patch.ts:167-222)
RECURSIVE ApplyLoop(_, _, _)
ApplyLoop(cfg, filePatches, acc) ==
    IF filePatches = << >> THEN acc
    ELSE ApplyLoop(cfg, Tail(filePatches), ApplyOne(cfg, Head(filePatches), acc))

\* applyDiff with its early return dropped (the mutant of applyDiff): the
\* files are patched although some path failed the pre-validation
applyDiff_NoEarlyReturn(cfg, fs, filePatches) ==
    LET pre == PreValidate(cfg, filePatches)
        out == ApplyLoop(cfg, filePatches,
                         [fs |-> fs, errors |-> pre, warnings |-> << >>,
                          filesAffected |-> 0])
    IN  [success |-> out.errors = << >>, filesAffected |-> out.filesAffected,
         errors |-> out.errors, warnings |-> out.warnings, fs |-> out.fs]

\* applyDiff(diff) on the file system fs; filePatches = parsePatch(diff)
applyDiff(cfg, fs, filePatches) ==
    LET pre == PreValidate(cfg, filePatches)
    IN  IF pre # << >>
        THEN [success |-> FALSE, filesAffected |-> 0, errors |-> pre,
              warnings |-> << >>, fs |-> fs]
        ELSE LET out == ApplyLoop(cfg, filePatches,
                                  [fs |-> fs, errors |-> << >>,
                                   warnings |-> << >>, filesAffected |-> 0])
             IN  [success |-> out.errors = << >>,
                  filesAffected |-> out.filesAffected,
                  errors |-> out.errors, warnings |-> out.warnings,
                  fs |-> out.fs]

RECURSIVE SumLines(_)
SumLines(files) ==
    IF files = << >> THEN 0 ELSE Head(files).lines + SumLines(Tail(files))

RECURSIVE PathErrors(_, _)
PathErrors(cfg, files) ==
    IF files = << >> THEN << >>
    ELSE LET check == validatePath(cfg, Head(files).path)
         IN  (IF check.valid THEN << >> ELSE << check.error >>)
                 \o PathErrors(cfg, Tail(files))

\* a single file's diff above this many lines draws a warning (patch.ts:93)
LargeFileLines == 200

\* validatePatch(files) of the worker; a file is [path, lines, diff], lines
\* being file.diff.split('\n').length
validatePatch(cfg, files) ==
    LET errors ==
            (IF Len(files) > cfg.maxFilesChanged
             THEN << "Too many files changed" >> ELSE << >>)
            \o PathErrors(cfg, files)
            \o (IF SumLines(files) > cfg.maxDiffLines
                THEN << "Total diff too large" >> ELSE << >>)
        warnings ==
            SelectSeq([i \in 1..Len(files) |->
                          IF files[i].lines > LargeFileLines
                          THEN "Large diff" ELSE "none"],
                      LAMBDA w : w # "none")
    IN  [valid |-> errors = << >>, errors |-> errors, warnings |-> warnings]

(***************************************************************************)
(* The data of the system: runs, patch rows, workers, caller slots.        *)
(***************************************************************************)
Runs == 1..NumRuns
NoRun == 0
Workers == 1..NumWorkers

\* a caller slot holds one request to an edge function: worker w's
\* executeRun/poll uses slot w, its approval watcher slot NumWorkers + w,
\* the outside callers the slots above
TickSlot(w) == NumWorkers + w
Clients == (2 * NumWorkers + 1)..(2 * NumWorkers + NumClients)
Slots == 1..(2 * NumWorkers + NumClients)

\* the patch the orchestrator creates for run r has id r; the rows made by
\* others have the ids above
WorkerPatch(r) == r
ExtPatchIds == (NumRuns + 1)..(NumRuns + MaxExtPatches)
PatchIds == 1..(NumRuns + MaxExtPatches)
NoPatch == 0

\* the statuses cancel refuses (runs/index.ts:213); the others written are
\* queued, running, verifying, awaiting_approval, approved, applying
TerminalStatuses == { "completed", "failed", "cancelled" }

\* a row of patches that does not exist
AbsentPatch ==
    [run |-> NoRun, approved |-> FALSE, applied |-> FALSE, shape |-> "none",
     files |-> << >>]

NoReq ==
    [op |-> "none", pc |-> "done", run |-> NoRun, patch |-> NoPatch,
     flag |-> FALSE, resp |-> "none"]

\* no error message: a message is a sequence of words
NoMessage == << >>

\* runs.error of a run that has none
NoError == [message |-> NoMessage]

IdleTick == [pc |-> "idle", run |-> NoRun, todo |-> {}, cur |-> NoPatch,
             inline |-> FALSE]

\* the files of a worker's repository when it starts
WorkerFs0 ==
    [f \in { << "/", "repo", "/", "env" >> } |-> "base"]

\* the store after NumRuns runs have been submitted (POST /runs inserts
\* status 'queued'), the workers started and idle
InitSys ==
    /\ runStatus = [r \in Runs |-> "queued"]
    /\ patches = [p \in PatchIds |-> AbsentPatch]
    /\ req = [c \in Slots |-> NoReq]
    /\ extOps = 0
    /\ wpc = [w \in Workers |-> "idle"]
    /\ wrun = [w \in Workers |-> NoRun]
    /\ isProcessing = [w \in Workers |-> FALSE]
    /\ currentRun = [w \in Workers |-> NoRun]
    /\ verifyResults = [w \in Workers |-> << >>]
    /\ watching = [w \in Workers |-> {}]
    /\ tick = [w \in Workers |-> IdleTick]
    /\ wfs = [w \in Workers |-> WorkerFs0]
    /\ applyLog = {}
    /\ grantedById = [r \in Runs |-> 0]
    /\ grantedOldest = [r \in Runs |-> 0]
    /\ events = {}
    /\ runError = [r \in Runs |-> NoError]
    /\ thrown = [w \in Workers |-> NoMessage]
    /\ validatedPatches = {}

(***************************************************************************)
(* Values of the variables a specification does not use.                   *)
(***************************************************************************)
SysIdle == InitSys

NoResult == [valid |-> FALSE, error |-> "not called"]

PathIdle ==
    /\ vpCfg = [repoPath |-> << "/", "repo" >>, pathDenylist |-> {},
                binaryExtensions |-> {}]
    /\ vpPath = << >>
    /\ vpResult = NoResult
    /\ vpPc = "off"

\* no event posted
NoEvent == [type |-> "none"]

\* the ERROR event of a failed validation (patch.ts:261-267)
ValidationErrorEvent(r, p, errors) ==
    [type |-> "ERROR", run |-> r,
     message |-> << "Patch validation failed" >> \o errors, patchId |-> p]

\* the ERROR event of a failed applyDiff (patch.ts:294-301)
ApplyErrorEvent(r, p) ==
    [type |-> "ERROR", run |-> r, message |-> << "Failed to apply patch" >>,
     patchId |-> p]

NoApplyResult ==
    [success |-> FALSE, filesAffected |-> 0, errors |-> << >>,
     warnings |-> << >>, fs |-> << >>]

ApplyIdle ==
    /\ apCfg = [repoPath |-> << "/", "repo" >>, pathDenylist |-> {},
                binaryExtensions |-> {}, maxFilesChanged |-> 20,
                maxDiffLines |-> 1000]
    /\ apPatch = [shape |-> "text", files |-> << >>]
    /\ apFs0 = << >>
    /\ apFs = << >>
    /\ apResult = NoApplyResult
    /\ apPc = "off"
    /\ apEvent = NoEvent

\* the variables of a pure function not being applied
FnIdle ==
    /\ fnArg = << >>
    /\ fnRes = << >>
    /\ fnPc = "off"

\* no poll tick
PollIdle ==
    /\ pollPc = << >>
    /\ pollRun = << >>
    /\ pollStatus = << >>
    /\ pollBusy = FALSE
    /\ pollCurrent = NoRun

(***************************************************************************)
(* SpecPath: validatePath applied to every target path of up to            *)
(* MaxPathLen tokens, under every configuration of Configs.                *)
(***************************************************************************)
AllPaths == UNION { [1..n -> PathTokens] : n \in 0..MaxPathLen }

InitPath ==
    /\ ApplyIdle
    /\ SysIdle
    /\ FnIdle
    /\ PollIdle
    /\ vpCfg \in Configs
    /\ vpPath \in AllPaths
    /\ vpResult = NoResult
    /\ vpPc = "call"

\* one call of validatePath
ValidatePathCall ==
    /\ vpPc = "call"
    /\ vpResult' = validatePath(vpCfg, vpPath)
    /\ vpPc' = "done"
    /\ UNCHANGED << vpCfg, vpPath >>
    /\ UNCHANGED << applyVars, sysVars, fnVars, pollVars >>

NextPath == ValidatePathCall

SpecPath == InitPath /\ [][NextPath]_vars

\* the resolved target is the root or lies below it (by segments)
InsideRoot(root, p) ==
    LET r == NormalizeSegs(SplitSlash(root), << >>)
        a == ResolveSegs(root, p)
    IN  Len(r) <= Len(a) /\ SubSeq(a, 1, Len(r)) = r

\* C9: validatePath rejects every target path whose resolution against the
\* repository root is not a descendant of the root, whatever the denylist
\* and the binary-extension list contain (empty lists included).
C9_TraversalRejected ==
    (vpPc = "done" /\ ~InsideRoot(vpCfg.repoPath, vpPath))
        => vpResult.valid = FALSE

\* C9 witness: with an empty denylist and no binary extensions, a relative
\* path climbing out of the root (../env) and an absolute path outside it
\* have been rejected.
C9_Witness ==
    /\ vpPc = "done"
    /\ vpCfg.pathDenylist = {} /\ vpCfg.binaryExtensions = {}
    /\ vpPath = << ".", ".", "/", "env" >>
    /\ ~InsideRoot(vpCfg.repoPath, vpPath)
    /\ vpResult.valid = FALSE

(***************************************************************************)
(* SpecApply: one apply attempt of the approval watcher (patch.ts:252-305) *)
(* on one patch record: validatePatch on files_changed, then applyDiff on  *)
(* the diffs joined.                                                       *)
(***************************************************************************)
NoNames == [oldFileName |-> << >>, newFileName |-> << >>]

\* entries of files_changed: [path, lines, diff], diff the parsed file patch
FileSamples ==
    { \* a change to the existing file env
      [path |-> << "env" >>, lines |-> 3,
       diff |-> [oldFileName |-> << "a", "/", "env" >>,
                 newFileName |-> << "b", "/", "env" >>]],
      \* a new file repo/png
      [path |-> << "repo", "/", "png" >>, lines |-> 3,
       diff |-> [oldFileName |-> DevNull,
                 newFileName |-> << "b", "/", "repo", "/", "png" >>]],
      \* a change to ../env, outside the root
      [path |-> << ".", ".", "/", "env" >>, lines |-> 3,
       diff |-> [oldFileName |-> << "a", "/", ".", ".", "/", "env" >>,
                 newFileName |-> << "b", "/", ".", ".", "/", "env" >>]],
      \* a new file .env
      [path |-> << ".", "env" >>, lines |-> 3,
       diff |-> [oldFileName |-> DevNull,
                 newFileName |-> << "b", "/", ".", "env" >>]],
      \* a new file env.PNG
      [path |-> << "env", ".", "PNG" >>, lines |-> 3,
       diff |-> [oldFileName |-> DevNull,
                 newFileName |-> << "b", "/", "env", ".", "PNG" >>]],
      \* the deletion of env
      [path |-> << "env" >>, lines |-> 3,
       diff |-> [oldFileName |-> << "a", "/", "env" >>,
                 newFileName |-> DevNull]],
      \* an entry whose path is env and whose diff names ../env
      [path |-> << "env" >>, lines |-> 3,
       diff |-> [oldFileName |-> DevNull,
                 newFileName |-> << "b", "/", ".", ".", "/", "env" >>]],
      \* a large change to png
      [path |-> << "png" >>, lines |-> 1200,
       diff |-> [oldFileName |-> << "a", "/", "png" >>,
                 newFileName |-> << "b", "/", "png" >>]],
      \* an entry whose diff has no file header
      [path |-> << "env" >>, lines |-> 3, diff |-> NoNames] }

\* the patch the orchestrator scripts (runner.ts:178-191): diff is an array
\* of line objects, not text
ScriptedFiles ==
    << [path |-> << "readme" >>, lines |-> 0, diff |-> NoNames] >>

PatchSamples ==
    { [shape |-> "text", files |-> f] :
          f \in UNION { [1..n -> FileSamples] : n \in 0..MaxPatchFiles } }
    \cup { [shape |-> "lines", files |-> ScriptedFiles] }

ApplyConfigs ==
    [repoPath : { << "/", "repo" >> }, pathDenylist : SUBSET { << ".", "env" >> },
     binaryExtensions : SUBSET BinaryEntries,
     maxFilesChanged : { 1, 20 }, maxDiffLines : { 1000 }]

RepoEnv == << "/", "repo", "/", "env" >>
RepoPng == << "/", "repo", "/", "png" >>

FsSamples ==
    { [f \in { RepoEnv, RepoPng } |-> "base"],
      [f \in { RepoEnv } |-> "drift"],
      [f \in {} |-> "base"] }

\* parsePatch(filesChanged.map(f => f.diff).join('\n')): one file patch per
\* entry; the empty text parses to one file patch without names
ParseFullDiff(files) ==
    IF files = << >> THEN << NoNames >>
    ELSE [i \in 1..Len(files) |-> files[i].diff]

\* validatePatch of a record whose diffs are arrays: file.diff.split is not
\* a function, the call throws
ApplyThrows ==
    /\ apPc = "check"
    /\ apPatch.shape = "lines"
    /\ apPc' = "threw"
    /\ UNCHANGED << apCfg, apPatch, apFs0, apFs, apResult, apEvent >>
    /\ UNCHANGED << pathVars, sysVars, fnVars, pollVars >>

\* validation fails: an ERROR event, no applyDiff
ApplyRejected ==
    /\ apPc = "check"
    /\ apPatch.shape = "text"
    /\ ~validatePatch(apCfg, apPatch.files).valid
    /\ apPc' = "rejected"
    /\ apEvent' = ValidationErrorEvent(NoRun, NoPatch,
                       validatePatch(apCfg, apPatch.files).errors)
    /\ UNCHANGED << apCfg, apPatch, apFs0, apFs, apResult >>
    /\ UNCHANGED << pathVars, sysVars, fnVars, pollVars >>

\* validation passes: applyDiff runs
ApplyRun ==
    /\ apPc = "check"
    /\ apPatch.shape = "text"
    /\ validatePatch(apCfg, apPatch.files).valid
    /\ LET result == applyDiff(apCfg, apFs, ParseFullDiff(apPatch.files))
       IN  /\ apResult' = result
           /\ apFs' = result.fs
           /\ apPc' = IF result.success THEN "applied" ELSE "failed"
           /\ apEvent' = IF result.success THEN apEvent
                         ELSE ApplyErrorEvent(NoRun, NoPatch)
    /\ UNCHANGED << apCfg, apPatch, apFs0 >>
    /\ UNCHANGED << pathVars, sysVars, fnVars, pollVars >>

NextApply == ApplyThrows \/ ApplyRejected \/ ApplyRun

InitApply ==
    /\ PathIdle
    /\ SysIdle
    /\ FnIdle
    /\ PollIdle
    /\ apCfg \in ApplyConfigs
    /\ apPatch \in PatchSamples
    /\ apFs0 \in FsSamples
    /\ apFs = apFs0
    /\ apResult = NoApplyResult
    /\ apPc = "check"
    /\ apEvent = NoEvent

SpecApply == InitApply /\ [][NextApply]_vars

\* some file of the patch fails the path validation: the path of an entry,
\* or the target path its diff names
SomeFileFailsValidation ==
    \/ \E i \in 1..Len(apPatch.files) :
           ~validatePath(apCfg, apPatch.files[i].path).valid
    \/ \E i \in 1..Len(apPatch.files) :
           LET target == StripAB(apPatch.files[i].diff.newFileName)
           IN  target # << >> /\ ~validatePath(apCfg, target).valid

\* C10: if any file of a patch fails validation, the apply attempt writes no
\* file: the file system after it equals the one before it, and applyDiff,
\* where it ran, reports filesAffected = 0.
C10_AllOrNothing ==
    (apPatch.shape = "text" /\ SomeFileFailsValidation)
        => /\ apFs = apFs0
           /\ apPc \in { "applied", "failed" } =>
                  (~apResult.success /\ apResult.filesAffected = 0)

\* C10 witness: applyDiff ran on a diff of two files, the first of which
\* could have been written and the second of which names a path outside the
\* root; it returned failure with nothing written.
C10_Witness ==
    /\ apPc = "failed"
    /\ Len(apPatch.files) = 2
    /\ validatePath(apCfg, StripAB(apPatch.files[1].diff.newFileName)).valid
    /\ apPatch.files[1].diff.oldFileName = DevNull
    /\ ~validatePath(apCfg, StripAB(apPatch.files[2].diff.newFileName)).valid
    /\ apResult.filesAffected = 0
    /\ apFs = apFs0

(***************************************************************************)
(* Spec: the record store, the edge functions that write it, the workers   *)
(* and outside callers (dashboard, other API clients).  A handler that     *)
(* makes several store calls is one action per store call: the store       *)
(* serialises single statements, nothing else.                             *)
(***************************************************************************)
\* the response is sent: a worker's code goes on with it; what an outside
\* caller does with it is not part of the model, its slot is free again
Respond(c, resp) ==
    IF c \in Clients THEN [req EXCEPT ![c] = NoReq]
    ELSE [req EXCEPT ![c].pc = "done", ![c].resp = resp]

NewReq(op, pc, r, p, flag) ==
    [op |-> op, pc |-> pc, run |-> r, patch |-> p, flag |-> flag,
     resp |-> "none"]

\* an outside caller sends a request; callers are interchangeable, the
\* free slot with the lowest number is taken
ClientCan(c) ==
    /\ c \in Clients /\ req[c].pc = "done" /\ extOps < MaxExtOps
    /\ \A d \in Clients : d < c => req[d].pc # "done"

\* ------------------------------------------------------------------------
\* POST /runner/claim-run with runId (runner/index.ts:172-216)
\* ------------------------------------------------------------------------
CallClaim(c, r) ==
    /\ ClientCan(c)
    /\ req' = [req EXCEPT ![c] = NewReq("claim", "fetch", r, NoPatch, FALSE)]
    /\ extOps' = extOps + 1
    /\ UNCHANGED << storeVars, workerVars, histVars >>
    /\ UNCHANGED << logVars, pathVars, applyVars, fnVars, pollVars >>

\* the run is read; one that is not queued is answered
\* { run: null, error: "Run not found or not queued" }
ClaimFetch(c) ==
    /\ req[c].op = "claim" /\ req[c].pc = "fetch"
    /\ req' = IF runStatus[req[c].run] = "queued"
              THEN [req EXCEPT ![c].pc = "update"]
              ELSE Respond(c, "not queued")
    /\ UNCHANGED << storeVars, extOps, workerVars, histVars >>
    /\ UNCHANGED << logVars, pathVars, applyVars, fnVars, pollVars >>

\* the mutant of ClaimRowMatches: the update without .eq('status', 'queued')
ClaimRowMatches_Unconditional(status) == TRUE

\* the row filter of the claiming update: .eq('status', 'queued')
ClaimRowMatches(status) == status = "queued"

\* update ... .eq('id', runId).eq('status', 'queued').select().maybeSingle();
\* no row back: { run: null, error: "Run already claimed" }
ClaimUpdate(c) ==
    /\ req[c].op = "claim" /\ req[c].pc = "update"
    /\ LET r == req[c].run
           updated == ClaimRowMatches(runStatus[r])
       IN  /\ runStatus' = IF updated THEN [runStatus EXCEPT ![r] = "running"]
                           ELSE runStatus
           /\ req' = Respond(c, IF updated THEN "run" ELSE "already claimed")
           /\ grantedById' = IF updated THEN [grantedById EXCEPT ![r] = @ + 1]
                             ELSE grantedById
    /\ UNCHANGED << patches, extOps, workerVars, grantedOldest >>
    /\ UNCHANGED << logVars, pathVars, applyVars, fnVars, pollVars >>

\* ------------------------------------------------------------------------
\* POST /runner/claim-run without runId (runner/index.ts:218-256)
\* ------------------------------------------------------------------------
CallClaimOldest(c) ==
    /\ ClientCan(c)
    /\ req' = [req EXCEPT ![c] = NewReq("claimOldest", "fetch", NoRun, NoPatch, FALSE)]
    /\ extOps' = extOps + 1
    /\ UNCHANGED << storeVars, workerVars, histVars >>
    /\ UNCHANGED << logVars, pathVars, applyVars, fnVars, pollVars >>

\* runs are created in the order of their ids
QueuedRuns == { r \in Runs : runStatus[r] = "queued" }
OldestQueued == CHOOSE r \in QueuedRuns : \A q \in QueuedRuns : r <= q

\* .eq('status','queued').order('created_at').limit(1).maybeSingle()
OldestFetch(c) ==
    /\ req[c].op = "claimOldest" /\ req[c].pc = "fetch"
    /\ req' = IF QueuedRuns = {}
              THEN Respond(c, "null")
              ELSE [req EXCEPT ![c].pc = "update", ![c].run = OldestQueued]
    /\ UNCHANGED << storeVars, extOps, workerVars, histVars >>
    /\ UNCHANGED << logVars, pathVars, applyVars, fnVars, pollVars >>

\* update ... .eq('id', queuedRun.id).eq('status', 'queued'): only the error
\* is looked at, not the rows; RUN_STARTED is posted and the run returned
OldestUpdate(c) ==
    /\ req[c].op = "claimOldest" /\ req[c].pc = "update"
    /\ LET r == req[c].run
       IN  /\ runStatus' = IF runStatus[r] = "queued"
                           THEN [runStatus EXCEPT ![r] = "running"]
                           ELSE runStatus
           /\ req' = Respond(c, "run")
           /\ grantedOldest' = [grantedOldest EXCEPT ![r] = @ + 1]
    /\ UNCHANGED << patches, extOps, workerVars, grantedById >>
    /\ UNCHANGED << logVars, pathVars, applyVars, fnVars, pollVars >>

\* ------------------------------------------------------------------------
\* POST /runs/:id/cancel (runs/index.ts:197-238)
\* ------------------------------------------------------------------------
CallCancel(c, r) ==
    /\ ClientCan(c)
    /\ req' = [req EXCEPT ![c] = NewReq("cancel", "read", r, NoPatch, FALSE)]
    /\ extOps' = extOps + 1
    /\ UNCHANGED << storeVars, workerVars, histVars >>
    /\ UNCHANGED << logVars, pathVars, applyVars, fnVars, pollVars >>

\* select status; a finished run is answered 400
CancelRead(c) ==
    /\ req[c].op = "cancel" /\ req[c].pc = "read"
    /\ req' = IF runStatus[req[c].run] \in TerminalStatuses
              THEN Respond(c, "already finished")
              ELSE [req EXCEPT ![c].pc = "write"]
    /\ UNCHANGED << storeVars, extOps, workerVars, histVars >>
    /\ UNCHANGED << logVars, pathVars, applyVars, fnVars, pollVars >>

\* update({ status: 'cancelled' }).eq('id', runId)
CancelWrite(c) ==
    /\ req[c].op = "cancel" /\ req[c].pc = "write"
    /\ runStatus' = [runStatus EXCEPT ![req[c].run] = "cancelled"]
    /\ req' = Respond(c, "ok")
    /\ UNCHANGED << patches, extOps, workerVars, histVars >>
    /\ UNCHANGED << logVars, pathVars, applyVars, fnVars, pollVars >>

\* ------------------------------------------------------------------------
\* POST /runs/:id/approve (runs/index.ts:240-297)
\* ------------------------------------------------------------------------
CallApprove(c, r, approved) ==
    /\ ClientCan(c)
    /\ req' = [req EXCEPT ![c] = NewReq("approve", "read", r, NoPatch, approved)]
    /\ extOps' = extOps + 1
    /\ UNCHANGED << storeVars, workerVars, histVars >>
    /\ UNCHANGED << logVars, pathVars, applyVars, fnVars, pollVars >>

\* the mutant of AwaitsApproval: the status check of approve dropped
AwaitsApproval_Unchecked(status) == TRUE

\* run.status !== 'awaiting_approval' is answered 400
AwaitsApproval(status) == status = "awaiting_approval"

\* the status is read and kept (in resp) while the request is served
ApproveRead(c) ==
    /\ req[c].op = "approve" /\ req[c].pc = "read"
    /\ req' = IF AwaitsApproval(runStatus[req[c].run])
              THEN [req EXCEPT ![c].pc = "writeRun",
                               ![c].resp = runStatus[req[c].run]]
              ELSE Respond(c, "not awaiting approval")
    /\ UNCHANGED << storeVars, extOps, workerVars, histVars >>
    /\ UNCHANGED << logVars, pathVars, applyVars, fnVars, pollVars >>

\* the REJECTED row the approve endpoint inserts (runs/index.ts:278-282)
RejectedEvent(r) == [type |-> "REJECTED", run |-> r]

\* update({ status: approved ? 'approved' : 'failed', ... }).eq('id', runId),
\* and for a rejection the REJECTED event that records it
ApproveWriteRun(c) ==
    /\ req[c].op = "approve" /\ req[c].pc = "writeRun"
    /\ runStatus' = [runStatus EXCEPT
                         ![req[c].run] = IF req[c].flag THEN "approved" ELSE "failed"]
    /\ req' = IF req[c].flag THEN [req EXCEPT ![c].pc = "writePatches"]
              ELSE Respond(c, "rejected")
    /\ events' = IF req[c].flag THEN events
                 ELSE events \cup { RejectedEvent(req[c].run) }
    /\ UNCHANGED << patches, extOps, workerVars, histVars >>
    /\ UNCHANGED << runError, thrown, validatedPatches >>
    /\ UNCHANGED << pathVars, applyVars, fnVars, pollVars >>

\* update patches set approved = true where run_id = runId
ApproveWritePatches(c) ==
    /\ req[c].op = "approve" /\ req[c].pc = "writePatches"
    /\ patches' = [p \in PatchIds |->
                       IF patches[p].run = req[c].run
                       THEN [patches[p] EXCEPT !.approved = TRUE]
                       ELSE patches[p]]
    /\ req' = Respond(c, "approved")
    /\ UNCHANGED << runStatus, extOps, workerVars, histVars >>
    /\ UNCHANGED << logVars, pathVars, applyVars, fnVars, pollVars >>

\* ------------------------------------------------------------------------
\* POST /patches (patches/index.ts:135-223)
\* ------------------------------------------------------------------------
\* CONSTRAINTS of the patches function (patches/index.ts:15-34)
ServerDenylist == { << ".", "env" >> }
ServerBinaryExtensions == { << ".", "png" >> }
ServerMaxFilesChanged == 10
ServerMaxDiffLines == 300

\* validatePatch of the patches function: denylist by includes, binary by
\* endsWith, on the path as sent
ServerValidatePatch(files) ==
    /\ Len(files) <= ServerMaxFilesChanged
    /\ \A i \in 1..Len(files) :
           /\ \A denied \in ServerDenylist : ~Includes(files[i].path, denied)
           /\ \A ext \in ServerBinaryExtensions : ~EndsWith(files[i].path, ext)
    /\ SumLines(files) <= ServerMaxDiffLines

\* request bodies of POST /patches: filesChanged as the orchestrator scripts
\* it (diff an array of lines), and with diff a unified-diff text: a change
\* to env, a change to ../env, a new file .env
PostedPatches ==
    { [shape |-> "lines", files |-> ScriptedFiles],
      [shape |-> "text",
       files |-> << [path |-> << "env" >>, lines |-> 3,
                     diff |-> [oldFileName |-> << "a", "/", "env" >>,
                               newFileName |-> << "b", "/", "env" >>]] >>],
      [shape |-> "text",
       files |-> << [path |-> << ".", ".", "/", "env" >>, lines |-> 3,
                     diff |-> [oldFileName |-> << "a", "/", ".", ".", "/", "env" >>,
                               newFileName |-> << "b", "/", ".", ".", "/", "env" >>]] >>],
      [shape |-> "text",
       files |-> << [path |-> << ".", "env" >>, lines |-> 3,
                     diff |-> [oldFileName |-> DevNull,
                               newFileName |-> << "b", "/", ".", "env" >>]] >>] }

FreeExtPatchIds == { p \in ExtPatchIds : patches[p].run = NoRun }

NewPatchRow(r, body) ==
    [run |-> r, approved |-> FALSE, applied |-> FALSE, shape |-> body.shape,
     files |-> body.files]

\* a body that passes validatePatch is inserted (approved and applied
\* default to false); one that fails is answered 422
PostPatch(c, r, body) ==
    /\ ClientCan(c)
    /\ FreeExtPatchIds # {}
    /\ LET p == CHOOSE q \in FreeExtPatchIds : \A o \in FreeExtPatchIds : q <= o
       IN  IF ServerValidatePatch(body.files)
           THEN /\ patches' = [patches EXCEPT ![p] = NewPatchRow(r, body)]
                /\ validatedPatches' = validatedPatches \cup { p }
                /\ req' = Respond(c, "created")
           ELSE /\ patches' = patches
                /\ validatedPatches' = validatedPatches
                /\ req' = Respond(c, "validation failed")
    /\ extOps' = extOps + 1
    /\ UNCHANGED << runStatus, workerVars, histVars >>
    /\ UNCHANGED << events, runError, thrown >>
    /\ UNCHANGED << pathVars, applyVars, fnVars, pollVars >>

\* ------------------------------------------------------------------------
\* POST /patches/:id/apply (patches/index.ts:246-352)
\* ------------------------------------------------------------------------
CallApply(c, p) ==
    /\ ClientCan(c)
    /\ req' = [req EXCEPT ![c] = NewReq("apply", "read", NoRun, p, FALSE)]
    /\ extOps' = extOps + 1
    /\ UNCHANGED << storeVars, workerVars, histVars >>
    /\ UNCHANGED << logVars, pathVars, applyVars, fnVars, pollVars >>

\* the patch is read; 404, 403 (not approved), 400 (applied), 422
\* (re-validation) end the request
EpApplyRead(c) ==
    /\ req[c].op = "apply" /\ req[c].pc = "read"
    /\ LET row == patches[req[c].patch]
       IN  req' = IF row.run = NoRun THEN Respond(c, "not found")
                  ELSE IF ~row.approved THEN Respond(c, "not approved")
                  ELSE IF row.applied THEN Respond(c, "already applied")
                  ELSE IF ~ServerValidatePatch(row.files)
                  THEN Respond(c, "violates constraints")
                  ELSE [req EXCEPT ![c].pc = "applying", ![c].run = row.run]
    /\ UNCHANGED << storeVars, extOps, workerVars, histVars >>
    /\ UNCHANGED << logVars, pathVars, applyVars, fnVars, pollVars >>

\* runs.update({ status: 'applying' }).eq('id', patch.run_id)
EpApplyApplying(c) ==
    /\ req[c].op = "apply" /\ req[c].pc = "applying"
    /\ runStatus' = [runStatus EXCEPT ![req[c].run] = "applying"]
    /\ req' = [req EXCEPT ![c].pc = "applied"]
    /\ UNCHANGED << patches, extOps, workerVars, histVars >>
    /\ UNCHANGED << logVars, pathVars, applyVars, fnVars, pollVars >>

\* patches.update({ applied: true }).eq('id', patchId)
EpApplyApplied(c) ==
    /\ req[c].op = "apply" /\ req[c].pc = "applied"
    /\ patches' = [patches EXCEPT ![req[c].patch].applied = TRUE]
    /\ req' = [req EXCEPT ![c].pc = "completed"]
    /\ UNCHANGED << runStatus, extOps, workerVars, histVars >>
    /\ UNCHANGED << logVars, pathVars, applyVars, fnVars, pollVars >>

\* runs.update({ status: 'completed' }).eq('id', patch.run_id)
EpApplyCompleted(c) ==
    /\ req[c].op = "apply" /\ req[c].pc = "completed"
    /\ runStatus' = [runStatus EXCEPT ![req[c].run] = "completed"]
    /\ req' = Respond(c, "applied")
    /\ UNCHANGED << patches, extOps, workerVars, histVars >>
    /\ UNCHANGED << logVars, pathVars, applyVars, fnVars, pollVars >>

\* ------------------------------------------------------------------------
\* POST /runner/patch-applied (runner/index.ts:318-372); r = NoRun when the
\* body has no runId
\* ------------------------------------------------------------------------
CallPatchApplied(c, p, r) ==
    /\ ClientCan(c)
    /\ req' = [req EXCEPT ![c] = NewReq("patchApplied", "write", r, p, FALSE)]
    /\ extOps' = extOps + 1
    /\ UNCHANGED << storeVars, workerVars, histVars >>
    /\ UNCHANGED << logVars, pathVars, applyVars, fnVars, pollVars >>

\* patches.update({ applied: true }).eq('id', patchId): no row, no change
PatchAppliedWrite(c) ==
    /\ req[c].op = "patchApplied" /\ req[c].pc = "write"
    /\ patches' = IF patches[req[c].patch].run # NoRun
                  THEN [patches EXCEPT ![req[c].patch].applied = TRUE]
                  ELSE patches
    /\ req' = IF req[c].run # NoRun THEN [req EXCEPT ![c].pc = "remaining"]
              ELSE Respond(c, "success")
    /\ UNCHANGED << runStatus, extOps, workerVars, histVars >>
    /\ UNCHANGED << logVars, pathVars, applyVars, fnVars, pollVars >>

\* select id from patches where run_id = runId and applied = false
PatchAppliedRemaining(c) ==
    /\ req[c].op = "patchApplied" /\ req[c].pc = "remaining"
    /\ LET remainingPatches ==
               { p \in PatchIds : patches[p].run = req[c].run /\ ~patches[p].applied }
       IN  req' = IF remainingPatches = {}
                  THEN [req EXCEPT ![c].pc = "complete"]
                  ELSE Respond(c, "success")
    /\ UNCHANGED << storeVars, extOps, workerVars, histVars >>
    /\ UNCHANGED << logVars, pathVars, applyVars, fnVars, pollVars >>

\* runs.update({ status: 'completed' }).eq('id', runId)
PatchAppliedComplete(c) ==
    /\ req[c].op = "patchApplied" /\ req[c].pc = "complete"
    /\ runStatus' = [runStatus EXCEPT ![req[c].run] = "completed"]
    /\ req' = Respond(c, "success")
    /\ UNCHANGED << patches, extOps, workerVars, histVars >>
    /\ UNCHANGED << logVars, pathVars, applyVars, fnVars, pollVars >>

\* ------------------------------------------------------------------------
\* The worker: startRunPoller and executeRun (runner.ts), runVerification
\* (tools/verify.ts), watchForApprovals (tools/patch.ts)
\* ------------------------------------------------------------------------
\* config.repoPath and config.patchConstraints of a worker
WorkerCfg ==
    [repoPath |-> << "/", "repo" >>, pathDenylist |-> { << ".", "env" >> },
     binaryExtensions |-> BinaryEntries, maxFilesChanged |-> 20,
     maxDiffLines |-> 1000]

\* poll (runner.ts:424-449): nothing current, a queued run is found
\* (getQueuedRuns: oldest first, limit 1), claimRun(run.id) is sent
PollClaim(w) ==
    /\ wpc[w] = "idle"
    /\ currentRun[w] = NoRun /\ ~isProcessing[w]
    /\ QueuedRuns # {}
    /\ wrun' = [wrun EXCEPT ![w] = OldestQueued]
    /\ wpc' = [wpc EXCEPT ![w] = "claiming"]
    /\ req' = [req EXCEPT ![w] = NewReq("claim", "fetch", OldestQueued, NoPatch, FALSE)]
    /\ UNCHANGED << storeVars, extOps, isProcessing, currentRun, verifyResults,
                    watching, tick, wfs, applyLog, histVars >>
    /\ UNCHANGED << logVars, pathVars, applyVars, fnVars, pollVars >>

\* the claim is answered with no run: the tick ends
PollNotClaimed(w) ==
    /\ wpc[w] = "claiming" /\ req[w].pc = "done" /\ req[w].resp # "run"
    /\ wpc' = [wpc EXCEPT ![w] = "idle"]
    /\ wrun' = [wrun EXCEPT ![w] = NoRun]
    /\ req' = [req EXCEPT ![w] = NoReq]
    /\ UNCHANGED << storeVars, extOps, isProcessing, currentRun, verifyResults,
                    watching, tick, wfs, applyLog, histVars >>
    /\ UNCHANGED << logVars, pathVars, applyVars, fnVars, pollVars >>

\* the claim is answered with the run: executeRun starts (runner.ts:48-84),
\* isProcessing and currentRun are set, updateRun({ status: 'running' })
ExecStart(w) ==
    /\ wpc[w] = "claiming" /\ req[w].pc = "done" /\ req[w].resp = "run"
    /\ ~isProcessing[w]
    /\ isProcessing' = [isProcessing EXCEPT ![w] = TRUE]
    /\ currentRun' = [currentRun EXCEPT ![w] = wrun[w]]
    /\ runStatus' = [runStatus EXCEPT ![wrun[w]] = "running"]
    /\ wpc' = [wpc EXCEPT ![w] = "gather"]
    /\ req' = [req EXCEPT ![w] = NoReq]
    /\ UNCHANGED << patches, extOps, wrun, verifyResults, watching, tick, wfs,
                    applyLog, histVars >>
    /\ UNCHANGED << logVars, pathVars, applyVars, fnVars, pollVars >>

\* phase 1 ends: updateRun({ status: 'verifying' }) (runner.ts:143-150)
ExecGather(w) ==
    /\ wpc[w] = "gather"
    /\ runStatus' = [runStatus EXCEPT ![wrun[w]] = "verifying"]
    /\ wpc' = [wpc EXCEPT ![w] = "verify"]
    /\ UNCHANGED << patches, req, extOps, wrun, isProcessing, currentRun,
                    verifyResults, watching, tick, wfs, applyLog, histVars >>
    /\ UNCHANGED << logVars, pathVars, applyVars, fnVars, pollVars >>

\* messages of the errors a step of phase 1 can throw: openFile's path
\* check (tools/repo.ts:170), a parser, a command's output that quotes a
\* failed verification, a store call out of retries (supabase.ts:133)
ToolErrors ==
    { << "Path traversal", "detected" >>,
      << "Unexpected", "token" >>,
      << "Command failed", "Verification failed" >>,
      << "Update run failed" >> }

\* a tool of phase 1 throws: control goes to the catch block
ExecToolThrows(w, message) ==
    /\ wpc[w] = "gather"
    /\ wpc' = [wpc EXCEPT ![w] = "catch"]
    /\ thrown' = [thrown EXCEPT ![w] = message]
    /\ UNCHANGED << storeVars, req, extOps, wrun, isProcessing, currentRun,
                    verifyResults, watching, tick, wfs, applyLog, histVars >>
    /\ UNCHANGED << events, runError, validatedPatches >>
    /\ UNCHANGED << pathVars, applyVars, fnVars, pollVars >>

\* the exit codes of the detected commands (typecheck, test), in order:
\* none, one or two commands, each exiting with 0 or not
VerifyOutcomes == UNION { [1..n -> { 0, 1 }] : n \in 0..2 }

\* the mutant of allPassed: results.length > 0 dropped
allPassed_Vacuous(results) ==
    \A i \in 1..Len(results) : results[i] = 0

\* verify.ts:292: results.length > 0 && results.every(r => r.passed)
allPassed(results) ==
    Len(results) > 0 /\ \A i \in 1..Len(results) : results[i] = 0

\* runVerification returns its results; updateRun({ verification })
\* (runner.ts:152-166) leaves the status alone
ExecVerify(w, results) ==
    /\ wpc[w] = "verify"
    /\ verifyResults' = [verifyResults EXCEPT ![w] = results]
    /\ wpc' = [wpc EXCEPT ![w] = "verified"]
    /\ UNCHANGED << storeVars, req, extOps, wrun, isProcessing, currentRun,
                    watching, tick, wfs, applyLog, histVars >>
    /\ UNCHANGED << logVars, pathVars, applyVars, fnVars, pollVars >>

\* the error record of the verification-failed branch (runner.ts:242-246)
VerificationError ==
    [message |-> << "Verification failed" >>, phase |-> "verification",
     recoverable |-> FALSE]

\* verifyResult.passed is false: updateRun({ status: 'failed', error })
\* (runner.ts:239-248), which writes the record or, out of retries, throws
ExecVerifyFailed(w, stored) ==
    /\ wpc[w] = "verified"
    /\ ~allPassed(verifyResults[w])
    /\ IF stored
       THEN /\ runStatus' = [runStatus EXCEPT ![wrun[w]] = "failed"]
            /\ runError' = [runError EXCEPT ![wrun[w]] = VerificationError]
            /\ wpc' = [wpc EXCEPT ![w] = "failedEvent"]
            /\ thrown' = thrown
       ELSE /\ runStatus' = runStatus
            /\ runError' = runError
            /\ wpc' = [wpc EXCEPT ![w] = "catch"]
            /\ thrown' = [thrown EXCEPT ![w] = << "Update run failed" >>]
    /\ verifyResults' = [verifyResults EXCEPT ![w] = << >>]
    /\ UNCHANGED << patches, req, extOps, wrun, isProcessing, currentRun,
                    watching, tick, wfs, applyLog, histVars >>
    /\ UNCHANGED << events, validatedPatches >>
    /\ UNCHANGED << pathVars, applyVars, fnVars, pollVars >>

\* postEvents RUN_FAILED of the verification-failed branch
\* (runner.ts:250-253): the event is appended and executeRun returns
\* through finally, or postEvents throws into the catch block
ExecFailedEvent(w, stored) ==
    /\ wpc[w] = "failedEvent"
    /\ IF stored
       THEN /\ events' = events \cup
                   { [type |-> "RUN_FAILED", run |-> wrun[w],
                      reason |-> << "Verification failed" >>] }
            /\ isProcessing' = [isProcessing EXCEPT ![w] = FALSE]
            /\ wpc' = [wpc EXCEPT ![w] = "finished"]
            /\ thrown' = thrown
       ELSE /\ events' = events
            /\ isProcessing' = isProcessing
            /\ wpc' = [wpc EXCEPT ![w] = "catch"]
            /\ thrown' = [thrown EXCEPT ![w] = << "Post events failed" >>]
    /\ UNCHANGED << storeVars, req, extOps, wrun, currentRun, verifyResults,
                    watching, tick, wfs, applyLog, histVars >>
    /\ UNCHANGED << runError, validatedPatches >>
    /\ UNCHANGED << pathVars, applyVars, fnVars, pollVars >>

\* verifyResult.passed is true: createPatch inserts the scripted patch
\* (runner.ts:172-198), or throws
ExecCreatePatch(w, inserted) ==
    /\ wpc[w] = "verified"
    /\ allPassed(verifyResults[w])
    /\ IF inserted
       THEN /\ patches' = [patches EXCEPT ![WorkerPatch(wrun[w])] =
                               NewPatchRow(wrun[w],
                                           [shape |-> "lines", files |-> ScriptedFiles])]
            /\ wpc' = [wpc EXCEPT ![w] = "propose"]
            /\ thrown' = thrown
       ELSE /\ patches' = patches
            /\ wpc' = [wpc EXCEPT ![w] = "catch"]
            /\ thrown' = [thrown EXCEPT ![w] = << "insert", "failed" >>]
    /\ UNCHANGED << runStatus, req, extOps, wrun, isProcessing, currentRun,
                    verifyResults, watching, tick, wfs, applyLog, histVars >>
    /\ UNCHANGED << events, runError, validatedPatches >>
    /\ UNCHANGED << pathVars, applyVars, fnVars, pollVars >>

\* updateRun({ status: 'awaiting_approval', ... }) (runner.ts:219-223), then
\* watchForApprovals begins with a first checkApprovals
ExecPropose(w) ==
    /\ wpc[w] = "propose"
    /\ runStatus' = [runStatus EXCEPT ![wrun[w]] = "awaiting_approval"]
    /\ wpc' = [wpc EXCEPT ![w] = "watch"]
    /\ tick' = [tick EXCEPT ![w] = [IdleTick EXCEPT !.pc = "query",
                                                    !.run = wrun[w],
                                                    !.inline = TRUE]]
    /\ UNCHANGED << patches, req, extOps, wrun, isProcessing, currentRun,
                    verifyResults, watching, wfs, applyLog, histVars >>
    /\ UNCHANGED << logVars, pathVars, applyVars, fnVars, pollVars >>

\* the first checkApprovals returned: the interval is set, executeRun
\* returns through finally
ExecWatching(w) ==
    /\ wpc[w] = "watch" /\ tick[w].pc = "idle"
    /\ watching' = [watching EXCEPT ![w] = @ \cup { wrun[w] }]
    /\ isProcessing' = [isProcessing EXCEPT ![w] = FALSE]
    /\ verifyResults' = [verifyResults EXCEPT ![w] = << >>]
    /\ wpc' = [wpc EXCEPT ![w] = "finished"]
    /\ UNCHANGED << storeVars, req, extOps, wrun, currentRun, tick, wfs,
                    applyLog, histVars >>
    /\ UNCHANGED << logVars, pathVars, applyVars, fnVars, pollVars >>

\* the classifier of the catch block (runner.ts:262-270)
Category(failureSummary) ==
    IF Includes(failureSummary, << "Verification failed" >>) THEN "verification"
    ELSE IF \/ Includes(failureSummary, << "Path traversal" >>)
            \/ Includes(failureSummary, << "denylist" >>) THEN "environment"
    ELSE IF \/ Includes(failureSummary, << "TypeScript" >>)
            \/ Includes(failureSummary, << "token" >>) THEN "analysis"
    ELSE "unknown"

\* the payload of the catch block's RUN_FAILED event (runner.ts:272-279)
CatchEvent(r, failureSummary) ==
    [type |-> "RUN_FAILED", run |-> r, reason |-> failureSummary,
     category |-> Category(failureSummary),
     recoverable |-> Category(failureSummary) \in { "verification", "analysis" }]

\* the error record of the catch block (runner.ts:283-288), written while
\* isProcessing is still true
CatchError(failureSummary) ==
    [message |-> failureSummary, phase |-> "execution",
     recoverable |-> Category(failureSummary) # "environment",
     category |-> Category(failureSummary)]

\* the catch block's postEvents RUN_FAILED (runner.ts:272-279): the event
\* is appended, or postEvents throws out of executeRun through finally
ExecCatchEvent(w, stored) ==
    /\ wpc[w] = "catch"
    /\ IF stored
       THEN /\ events' = events \cup { CatchEvent(wrun[w], thrown[w]) }
            /\ wpc' = [wpc EXCEPT ![w] = "catchUpdate"]
            /\ isProcessing' = isProcessing
            /\ thrown' = thrown
       ELSE /\ events' = events
            /\ wpc' = [wpc EXCEPT ![w] = "finished"]
            /\ isProcessing' = [isProcessing EXCEPT ![w] = FALSE]
            /\ thrown' = [thrown EXCEPT ![w] = NoMessage]
    /\ verifyResults' = [verifyResults EXCEPT ![w] = << >>]
    /\ UNCHANGED << storeVars, req, extOps, wrun, currentRun, watching, tick,
                    wfs, applyLog, histVars >>
    /\ UNCHANGED << runError, validatedPatches >>
    /\ UNCHANGED << pathVars, applyVars, fnVars, pollVars >>

\* the catch block's updateRun({ status: 'failed', error })
\* (runner.ts:281-289), which writes the record or throws; finally
\* isProcessing = false
ExecCatch(w, stored) ==
    /\ wpc[w] = "catchUpdate"
    /\ IF stored
       THEN /\ runStatus' = [runStatus EXCEPT ![wrun[w]] = "failed"]
            /\ runError' = [runError EXCEPT ![wrun[w]] = CatchError(thrown[w])]
       ELSE /\ runStatus' = runStatus
            /\ runError' = runError
    /\ isProcessing' = [isProcessing EXCEPT ![w] = FALSE]
    /\ thrown' = [thrown EXCEPT ![w] = NoMessage]
    /\ wpc' = [wpc EXCEPT ![w] = "finished"]
    /\ UNCHANGED << patches, req, extOps, wrun, currentRun, verifyResults,
                    watching, tick, wfs, applyLog, histVars >>
    /\ UNCHANGED << events, validatedPatches >>
    /\ UNCHANGED << pathVars, applyVars, fnVars, pollVars >>

\* the mutant of ApprovalFilter: .eq('approved', true) dropped
ApprovalFilter_AppliedOnly(row) == ~row.applied

\* the row filter of checkApprovals (patch.ts:243-244)
ApprovalFilter(row) == row.approved /\ ~row.applied

\* the rows checkApprovals gets for run r, each with the approved flag read
ApprovalRows(r) ==
    { [id |-> p, approved |-> patches[p].approved] :
          p \in { q \in PatchIds : patches[q].run = r /\ ApprovalFilter(patches[q]) } }

\* a checkApprovals call with the rows left to handle, idle when none is
TickWith(t, rows) ==
    IF rows = {} THEN IdleTick
    ELSE [t EXCEPT !.pc = "loop", !.todo = rows, !.cur = NoPatch]

\* the query of the first checkApprovals, inside executeRun
CheckApprovalsFirst(w) ==
    /\ tick[w].pc = "query"
    /\ tick' = [tick EXCEPT ![w] = TickWith(@, ApprovalRows(tick[w].run))]
    /\ UNCHANGED << storeVars, req, extOps, wpc, wrun, isProcessing, currentRun,
                    verifyResults, watching, wfs, applyLog, histVars >>
    /\ UNCHANGED << logVars, pathVars, applyVars, fnVars, pollVars >>

\* the interval fires for a watched run and the query finds rows
CheckApprovals(w, r) ==
    /\ tick[w].pc = "idle" /\ r \in watching[w]
    /\ ApprovalRows(r) # {}
    /\ tick' = [tick EXCEPT ![w] = TickWith([IdleTick EXCEPT !.run = r],
                                            ApprovalRows(r))]
    /\ UNCHANGED << storeVars, req, extOps, wpc, wrun, isProcessing, currentRun,
                    verifyResults, watching, wfs, applyLog, histVars >>
    /\ UNCHANGED << logVars, pathVars, applyVars, fnVars, pollVars >>

\* files_changed whose diff is an array: validatePatch calls
\* file.diff.split, which throws; the first check throws into executeRun's
\* catch, an interval's check ends as a rejected promise
TickThrows(w, item) ==
    /\ tick[w].pc = "loop" /\ item \in tick[w].todo
    /\ patches[item.id].shape = "lines"
    /\ tick' = [tick EXCEPT ![w] = IdleTick]
    /\ wpc' = IF tick[w].inline THEN [wpc EXCEPT ![w] = "catch"] ELSE wpc
    /\ thrown' = IF tick[w].inline
                 THEN [thrown EXCEPT ![w] = << "file.diff.split", "is not a function" >>]
                 ELSE thrown
    /\ UNCHANGED << storeVars, req, extOps, wrun, isProcessing, currentRun,
                    verifyResults, watching, wfs, applyLog, histVars >>
    /\ UNCHANGED << events, runError, validatedPatches >>
    /\ UNCHANGED << pathVars, applyVars, fnVars, pollVars >>

\* validatePatch fails: an ERROR event, continue
TickRejects(w, item) ==
    /\ tick[w].pc = "loop" /\ item \in tick[w].todo
    /\ patches[item.id].shape = "text"
    /\ ~validatePatch(WorkerCfg, patches[item.id].files).valid
    /\ events' = events \cup
           { ValidationErrorEvent(tick[w].run, item.id,
                 validatePatch(WorkerCfg, patches[item.id].files).errors) }
    /\ tick' = [tick EXCEPT ![w] = TickWith(@, tick[w].todo \ { item })]
    /\ UNCHANGED << storeVars, req, extOps, wpc, wrun, isProcessing, currentRun,
                    verifyResults, watching, wfs, applyLog, histVars >>
    /\ UNCHANGED << runError, thrown, validatedPatches >>
    /\ UNCHANGED << pathVars, applyVars, fnVars, pollVars >>

\* validatePatch passes: applyDiff on the worker's files; on success
\* markPatchApplied(runId, patch.id) is sent, else an ERROR event
TickApplies(w, item) ==
    /\ tick[w].pc = "loop" /\ item \in tick[w].todo
    /\ patches[item.id].shape = "text"
    /\ validatePatch(WorkerCfg, patches[item.id].files).valid
    /\ LET result == applyDiff(WorkerCfg, wfs[w],
                               ParseFullDiff(patches[item.id].files))
       IN  /\ wfs' = [wfs EXCEPT ![w] = result.fs]
           /\ applyLog' = applyLog \cup
                  { [worker |-> w, patch |-> item.id, approved |-> item.approved,
                     success |-> result.success] }
           /\ IF result.success
              THEN /\ tick' = [tick EXCEPT ![w].pc = "marking", ![w].cur = item.id,
                                           ![w].todo = @ \ { item }]
                   /\ req' = [req EXCEPT ![TickSlot(w)] =
                                  NewReq("patchApplied", "write", tick[w].run,
                                         item.id, FALSE)]
                   /\ events' = events
              ELSE /\ tick' = [tick EXCEPT ![w] = TickWith(@, tick[w].todo \ { item })]
                   /\ req' = req
                   /\ events' = events \cup { ApplyErrorEvent(tick[w].run, item.id) }
    /\ validatedPatches' = validatedPatches \cup { item.id }
    /\ UNCHANGED << storeVars, extOps, wpc, wrun, isProcessing, currentRun,
                    verifyResults, watching, histVars >>
    /\ UNCHANGED << runError, thrown >>
    /\ UNCHANGED << pathVars, applyVars, fnVars, pollVars >>

\* markPatchApplied returned: PATCH_APPLIED is posted, the loop goes on
TickMarked(w) ==
    /\ tick[w].pc = "marking" /\ req[TickSlot(w)].pc = "done"
    /\ tick' = [tick EXCEPT ![w] = TickWith(@, tick[w].todo)]
    /\ req' = [req EXCEPT ![TickSlot(w)] = NoReq]
    /\ UNCHANGED << storeVars, extOps, wpc, wrun, isProcessing, currentRun,
                    verifyResults, watching, wfs, applyLog, histVars >>
    /\ UNCHANGED << logVars, pathVars, applyVars, fnVars, pollVars >>

\* ------------------------------------------------------------------------
Init ==
    /\ PathIdle
    /\ ApplyIdle
    /\ FnIdle
    /\ PollIdle
    /\ InitSys

ItemIds == [id : PatchIds, approved : BOOLEAN]

Next ==
    \/ \E c \in Clients, r \in Runs : CallClaim(c, r)
    \/ \E c \in Slots : ClaimFetch(c)
    \/ \E c \in Slots : ClaimUpdate(c)
    \/ \E c \in Clients : CallClaimOldest(c)
    \/ \E c \in Slots : OldestFetch(c)
    \/ \E c \in Slots : OldestUpdate(c)
    \/ \E c \in Clients, r \in Runs : CallCancel(c, r)
    \/ \E c \in Slots : CancelRead(c)
    \/ \E c \in Slots : CancelWrite(c)
    \/ \E c \in Clients, r \in Runs, approved \in BOOLEAN : CallApprove(c, r, approved)
    \/ \E c \in Slots : ApproveRead(c)
    \/ \E c \in Slots : ApproveWriteRun(c)
    \/ \E c \in Slots : ApproveWritePatches(c)
    \/ \E c \in Clients, r \in Runs, body \in PostedPatches : PostPatch(c, r, body)
    \/ \E c \in Clients, p \in PatchIds : CallApply(c, p)
    \/ \E c \in Slots : EpApplyRead(c)
    \/ \E c \in Slots : EpApplyApplying(c)
    \/ \E c \in Slots : EpApplyApplied(c)
    \/ \E c \in Slots : EpApplyCompleted(c)
    \/ \E c \in Clients, p \in PatchIds, r \in Runs \cup { NoRun } :
           CallPatchApplied(c, p, r)
    \/ \E c \in Slots : PatchAppliedWrite(c)
    \/ \E c \in Slots : PatchAppliedRemaining(c)
    \/ \E c \in Slots : PatchAppliedComplete(c)
    \/ \E w \in Workers : PollClaim(w)
    \/ \E w \in Workers : PollNotClaimed(w)
    \/ \E w \in Workers : ExecStart(w)
    \/ \E w \in Workers : ExecGather(w)
    \/ \E w \in Workers, message \in ToolErrors : ExecToolThrows(w, message)
    \/ \E w \in Workers, results \in VerifyOutcomes : ExecVerify(w, results)
    \/ \E w \in Workers, stored \in BOOLEAN : ExecVerifyFailed(w, stored)
    \/ \E w \in Workers, stored \in BOOLEAN : ExecFailedEvent(w, stored)
    \/ \E w \in Workers, inserted \in BOOLEAN : ExecCreatePatch(w, inserted)
    \/ \E w \in Workers : ExecPropose(w)
    \/ \E w \in Workers : ExecWatching(w)
    \/ \E w \in Workers, stored \in BOOLEAN : ExecCatchEvent(w, stored)
    \/ \E w \in Workers, stored \in BOOLEAN : ExecCatch(w, stored)
    \/ \E w \in Workers : CheckApprovalsFirst(w)
    \/ \E w \in Workers, r \in Runs : CheckApprovals(w, r)
    \/ \E w \in Workers, item \in ItemIds : TickThrows(w, item)
    \/ \E w \in Workers, item \in ItemIds : TickRejects(w, item)
    \/ \E w \in Workers, item \in ItemIds : TickApplies(w, item)
    \/ \E w \in Workers : TickMarked(w)

Spec == Init /\ [][Next]_vars

(***************************************************************************)
(* Properties of Spec.                                                     *)
(***************************************************************************)
\* C1: of the claim-run requests that name one run, at most one is answered
\* with the run; a worker whose claim is answered without the run finds the
\* run no longer queued.
C1_ClaimByIdExclusive ==
    /\ \A r \in Runs : grantedById[r] <= 1
    /\ \A w \in Workers :
           (wpc[w] = "claiming" /\ req[w].pc = "done" /\ req[w].resp # "run")
               => runStatus[wrun[w]] # "queued"

\* C1 witness: a worker's claim passed the first read (the run was queued)
\* and lost at the conditional update to another caller, who got the run.
C1_Witness ==
    \E w \in Workers :
        /\ wpc[w] = "claiming" /\ req[w].pc = "done"
        /\ req[w].resp = "already claimed"
        /\ grantedById[wrun[w]] = 1

\* C2: of the claim-run requests without runId, at most one is answered
\* with a given run.
C2_ClaimOldestExclusive ==
    \A r \in Runs : grantedOldest[r] <= 1

\* C3: a patch row with applied = true has approved = true.
C3_AppliedImpliesApproved ==
    \A p \in PatchIds : patches[p].applied => patches[p].approved

\* C4: every applyDiff call of a worker is for a patch it read from the
\* store with approved = true (and that is approved in the store), and a
\* worker's files differ from their first contents only after such a call.
C4_ApplyOnlyApproved ==
    /\ \A a \in applyLog : a.approved /\ patches[a.patch].approved
    /\ \A w \in Workers :
           wfs[w] # WorkerFs0 =>
               \E a \in applyLog : a.worker = w /\ a.approved

\* C4 witness: a worker applied an approved patch and its files changed.
C4_Witness ==
    \E a \in applyLog :
        a.success /\ a.approved /\ wfs[a.worker] # WorkerFs0

C6_TerminalIsFinal ==
    [][ \A w \in Workers :
            (wpc'[w] # wpc[w] /\ wrun[w] # NoRun
                 /\ runStatus[wrun[w]] \in TerminalStatuses)
                => runStatus'[wrun[w]] = runStatus[wrun[w]] ]_vars

\* at least one command was detected and every detected one exited with 0
VerificationPassed(results) ==
    results # << >> /\ \A i \in DOMAIN results : results[i] = 0

C8_CompletedImpliesAllApplied ==
    [][ \A c \in Slots :
            (req[c].op = "apply" /\ req[c].pc = "completed" /\ req'[c] # req[c]) =>
                /\ runStatus'[req[c].run] = "completed"
                /\ \A p \in PatchIds :
                       patches'[p].run = req[c].run => patches'[p].applied ]_vars

\* C11: every patch the orchestrator has proposed (its record inserted, the
\* run then set to awaiting_approval) passed a validatePatch call before,
\* and so did every patch an apply attempt was started for.
C11_ValidatedBeforeProposeAndApply ==
    /\ \A w \in Workers :
           wpc[w] \in { "propose", "watch" } =>
               WorkerPatch(wrun[w]) \in validatedPatches
    /\ \A a \in applyLog : a.patch \in validatedPatches

\* the patch touches .env and nothing else stops it: .env is on the
\* denylist in force, the file count and the line count are within the
\* limits, and no other path of the patch is refused
TouchesEnvOnly ==
    /\ apPatch.shape = "text"
    /\ << ".", "env" >> \in apCfg.pathDenylist
    /\ Len(apPatch.files) <= apCfg.maxFilesChanged
    /\ SumLines(apPatch.files) <= apCfg.maxDiffLines
    /\ \E i \in 1..Len(apPatch.files) : apPatch.files[i].path = << ".", "env" >>
    /\ \A i \in 1..Len(apPatch.files) :
           \/ apPatch.files[i].path = << ".", "env" >>
           \/ validatePath(apCfg, apPatch.files[i].path).valid

\* C12: an apply attempt on a patch that touches .env, its file count and
\* line count within the limits, ends rejected at validation, and the error
\* it reports carries the category environment.
C12_EnvRejectedAsEnvironment ==
    (TouchesEnvOnly /\ apPc # "check") =>
        /\ apPc = "rejected"
        /\ apFs = apFs0
        /\ "category" \in DOMAIN apEvent
        /\ apEvent.category = "environment"

\* an ERROR event of a failed validation
IsValidationError(e) ==
    e.type = "ERROR" /\ Head(e.message) = "Patch validation failed"

\* the error record has the four fields of a structured error
IsStructuredError(error) ==
    DOMAIN error = { "message", "phase", "recoverable", "category" }

\* C13: once a checkApprovals call that rejected a patch at validation is
\* over, executeRun having returned, the patch's run has the status failed
\* and a structured error record, and no apply attempt was made for the
\* patch.
C13_RejectionFailsRun ==
    \A e \in events :
        ( /\ IsValidationError(e)
          /\ \A w \in Workers : tick[w].pc = "idle" /\ wpc[w] = "finished" ) =>
            /\ runStatus[e.run] = "failed"
            /\ IsStructuredError(runError[e.run])
            /\ \A a \in applyLog : a.patch # e.patchId

\* executeRun of worker w has returned without starting the approval
\* watcher: it took the verification-failed branch or the catch block
ExecuteRunFailed(w) ==
    wpc[w] = "finished" /\ wrun[w] \notin watching[w]

\* C14: when executeRun has returned from the verification-failed branch
\* or from the catch block, the run has an error record and the log has a
\* RUN_FAILED event of the run.
C14_RecordAndEvent ==
    \A w \in Workers :
        ExecuteRunFailed(w) =>
            /\ runError[wrun[w]] # NoError
            /\ \E e \in events : e.type = "RUN_FAILED" /\ e.run = wrun[w]

\* C15: a RUN_FAILED event of the catch block and the error record the
\* catch block wrote for the same message carry the same category and the
\* same recoverable flag, which is category # environment.
C15_EventMatchesRecord ==
    \A r \in Runs : \A e \in events :
        ( /\ e.type = "RUN_FAILED" /\ e.run = r
          /\ "category" \in DOMAIN e
          /\ "category" \in DOMAIN runError[r]
          /\ e.reason = runError[r].message ) =>
            /\ e.category = runError[r].category
            /\ e.recoverable = runError[r].recoverable
            /\ runError[r].recoverable = (runError[r].category # "environment")

\* C16: the step that fails a run because a verification command exited
\* non-zero writes an error record with category verification and
\* recoverable true.
C16_VerificationFailureRecord ==
    [][ \A w \in Workers :
            (wpc[w] = "verified" /\ wpc'[w] = "failedEvent") =>
                /\ runStatus'[wrun[w]] = "failed"
                /\ "category" \in DOMAIN runError'[wrun[w]]
                /\ runError'[wrun[w]].category = "verification"
                /\ runError'[wrun[w]].recoverable = TRUE ]_vars

(***************************************************************************)
(* SpecPoll: the poll callback of startRunPoller (runner.ts:421-449) fired  *)
(* NumTicks times in one worker process.  A tick's awaits (getQueuedRuns,   *)
(* claimRun, executeRun) let the next firing of the interval start before   *)
(* it has returned.  The claim-run call is one step here: it answers with   *)
(* the run exactly when it found the run queued.                            *)
(***************************************************************************)
NumTicks == 3
NumPollRuns == 2

Ticks == 1..NumTicks
PollRuns == 1..NumPollRuns

InitPoll ==
    /\ PathIdle
    /\ ApplyIdle
    /\ SysIdle
    /\ FnIdle
    /\ pollPc = [t \in Ticks |-> "idle"]
    /\ pollRun = [t \in Ticks |-> NoRun]
    /\ pollStatus = [r \in PollRuns |-> "queued"]
    /\ pollBusy = FALSE
    /\ pollCurrent = NoRun

\* the mutant of AlreadyProcessing: executeRun's guard dropped
AlreadyProcessing_Ignored == FALSE

\* runner.ts:49: if (isProcessing) return
AlreadyProcessing == pollBusy

\* runner.ts:425: if (currentRun || isProcessing) return
PollGuard == pollCurrent # NoRun \/ pollBusy

\* the interval fires: the tick returns at the guard or goes on to
\* getQueuedRuns
PollFire(t) ==
    /\ pollPc[t] = "idle"
    /\ pollPc' = [pollPc EXCEPT ![t] = IF PollGuard THEN "skipped" ELSE "query"]
    /\ UNCHANGED << pollRun, pollStatus, pollBusy, pollCurrent >>
    /\ UNCHANGED << pathVars, applyVars, sysVars, fnVars >>

\* getQueuedRuns returns the oldest queued run, or nothing
PollQuery(t) ==
    /\ pollPc[t] = "query"
    /\ LET queued == { r \in PollRuns : pollStatus[r] = "queued" }
       IN  IF queued = {}
           THEN /\ pollPc' = [pollPc EXCEPT ![t] = "done"]
                /\ pollRun' = pollRun
           ELSE /\ pollPc' = [pollPc EXCEPT ![t] = "claim"]
                /\ pollRun' = [pollRun EXCEPT ![t] =
                                   CHOOSE r \in queued : \A o \in queued : r <= o]
    /\ UNCHANGED << pollStatus, pollBusy, pollCurrent >>
    /\ UNCHANGED << pathVars, applyVars, sysVars, fnVars >>

\* claimRun(run.id): claimed when the run was still queued
PollClaimRun(t) ==
    /\ pollPc[t] = "claim"
    /\ IF pollStatus[pollRun[t]] = "queued"
       THEN /\ pollStatus' = [pollStatus EXCEPT ![pollRun[t]] = "running"]
            /\ pollPc' = [pollPc EXCEPT ![t] = "call"]
       ELSE /\ pollStatus' = pollStatus
            /\ pollPc' = [pollPc EXCEPT ![t] = "done"]
    /\ UNCHANGED << pollRun, pollBusy, pollCurrent >>
    /\ UNCHANGED << pathVars, applyVars, sysVars, fnVars >>

\* another worker claims a queued run
OtherWorkerClaims(r) ==
    /\ pollStatus[r] = "queued"
    /\ pollStatus' = [pollStatus EXCEPT ![r] = "running"]
    /\ UNCHANGED << pollPc, pollRun, pollBusy, pollCurrent >>
    /\ UNCHANGED << pathVars, applyVars, sysVars, fnVars >>

\* executeRun(run.id, run.task) is called (runner.ts:48-63): it returns at
\* once when a run is being processed, else it sets isProcessing and
\* currentRun and the pipeline starts
PollExecuteRun(t) ==
    /\ pollPc[t] = "call"
    /\ IF AlreadyProcessing
       THEN /\ pollPc' = [pollPc EXCEPT ![t] = "dropped"]
            /\ UNCHANGED << pollBusy, pollCurrent >>
       ELSE /\ pollPc' = [pollPc EXCEPT ![t] = "pipeline"]
            /\ pollBusy' = TRUE
            /\ pollCurrent' = pollRun[t]
    /\ UNCHANGED << pollRun, pollStatus >>
    /\ UNCHANGED << pathVars, applyVars, sysVars, fnVars >>

\* the pipeline ends, the run awaiting approval or failed; finally
\* isProcessing = false (runner.ts:290-292), currentRun stays
PollPipelineEnds(t, status) ==
    /\ pollPc[t] = "pipeline"
    /\ pollStatus' = [pollStatus EXCEPT ![pollRun[t]] = status]
    /\ pollBusy' = FALSE
    /\ pollPc' = [pollPc EXCEPT ![t] = "done"]
    /\ UNCHANGED << pollRun, pollCurrent >>
    /\ UNCHANGED << pathVars, applyVars, sysVars, fnVars >>

NextPoll ==
    \/ \E t \in Ticks : PollFire(t)
    \/ \E t \in Ticks : PollQuery(t)
    \/ \E t \in Ticks : PollClaimRun(t)
    \/ \E r \in PollRuns : OtherWorkerClaims(r)
    \/ \E t \in Ticks : PollExecuteRun(t)
    \/ \E t \in Ticks, status \in { "awaiting_approval", "failed" } :
           PollPipelineEnds(t, status)

SpecPoll == InitPoll /\ [][NextPoll]_vars

\* the ticks whose executeRun pipeline is running
ActivePipelines == { t \in Ticks : pollPc[t] = "pipeline" }

\* C17: at most one executeRun pipeline is active at any time; a poll tick
\* that fires while a run is being processed returns at its guard, and a
\* call to executeRun made while a run is being processed returns at once:
\* neither claims a run, starts a pipeline or leaves anything behind.
C17_OnePipelineAtATime ==
    [][ /\ Cardinality(ActivePipelines') <= 1
        /\ \A t \in Ticks :
               (pollBusy /\ pollPc[t] = "idle" /\ pollPc'[t] # "idle") =>
                   /\ pollPc'[t] = "skipped"
                   /\ UNCHANGED << pollRun, pollStatus, pollBusy, pollCurrent >>
        /\ \A t \in Ticks :
               (pollBusy /\ pollPc[t] = "call" /\ pollPc'[t] # "call") =>
                   /\ pollPc'[t] = "dropped"
                   /\ ActivePipelines' = ActivePipelines
                   /\ UNCHANGED << pollRun, pollStatus, pollBusy, pollCurrent >> ]_vars

\* C17 witness: while one tick's pipeline is running, a second tick that
\* had claimed a run had its executeRun call returned at the guard, and a
\* third tick returned at the poll guard.
C17_Witness ==
    \E t, u, v \in Ticks :
        /\ pollPc[t] = "pipeline"
        /\ pollPc[u] = "dropped"
        /\ pollPc[v] = "skipped"

(***************************************************************************)
(* SpecParse: parseDiff (tools/patch.ts:112-137) applied to the unified     *)
(* diff of one file generated from a list of changes.  A change is an       *)
(* added, a removed or a context line with its text; a text is a sequence   *)
(* of characters.  In the diff a change is the line made of its marker      *)
(* ("+", "-" or " ") followed by its text, and parsePatch of the diff       *)
(* library hands parseDiff these lines as hunk.lines.                       *)
(***************************************************************************)
MaxTextLen == 2
MaxHunkLines == 2

Chars == { "+", "-", "x" }
LineTexts == UNION { [1..n -> Chars] : n \in 0..MaxTextLen }
Changes == [marker : { "+", "-", " " }, text : LineTexts]
ChangeLists == UNION { [1..n -> Changes] : n \in 0..MaxHunkLines }

\* the hunk lines of the diff generated from a list of changes
HunkLines(changes) ==
    [i \in 1..Len(changes) |-> << changes[i].marker >> \o changes[i].text]

\* the numbers of added and removed lines the diff was generated from
GeneratedCounts(changes) ==
    [additions |-> Cardinality({ i \in 1..Len(changes) : changes[i].marker = "+" }),
     deletions |-> Cardinality({ i \in 1..Len(changes) : changes[i].marker = "-" })]

\* the loop of parseDiff over the lines of a file's hunks (patch.ts:120-128)
RECURSIVE CountLines(_, _)
CountLines(lines, counts) ==
    IF lines = << >> THEN counts
    ELSE LET line == Head(lines)
         IN  IF StartsWith(line, << "+" >>) /\ ~StartsWith(line, << "+", "+", "+" >>)
             THEN CountLines(Tail(lines), [counts EXCEPT !.additions = @ + 1])
             ELSE IF StartsWith(line, << "-" >>) /\ ~StartsWith(line, << "-", "-", "-" >>)
             THEN CountLines(Tail(lines), [counts EXCEPT !.deletions = @ + 1])
             ELSE CountLines(Tail(lines), counts)

\* parseDiff on the diff of one file: its additions and deletions
parseDiff(lines) == CountLines(lines, [additions |-> 0, deletions |-> 0])

InitParse ==
    /\ PathIdle
    /\ ApplyIdle
    /\ SysIdle
    /\ PollIdle
    /\ fnArg \in ChangeLists
    /\ fnRes = << >>
    /\ fnPc = "call"

ParseDiffCall ==
    /\ fnPc = "call"
    /\ fnRes' = parseDiff(HunkLines(fnArg))
    /\ fnPc' = "done"
    /\ UNCHANGED fnArg
    /\ UNCHANGED << pathVars, applyVars, sysVars, pollVars >>

NextParse == ParseDiffCall

SpecParse == InitParse /\ [][NextParse]_vars

\* C18: parseDiff of the diff generated from a list of changes returns the
\* numbers of added and removed lines of the list, whatever the texts of
\* the lines are.
C18_CountsRoundTrip ==
    fnPc = "done" => fnRes = GeneratedCounts(fnArg)

(***************************************************************************)
(* SpecFlush: one call of flushLogs (tools/verify.ts:131-159) on a buffer   *)
(* of output pieces.  A text is a sequence of characters, "nl" being the    *)
(* newline; indices are those of the code, counted from 0.                  *)
(***************************************************************************)
MaxPieces == 2
MaxPieceLen == 3

\* the chunk size: 1024 at verify.ts:128, scaled down here so that a text
\* of a few characters is longer than a chunk
MAX_CHUNK_SIZE == 2

LogChars == { "x", "nl" }
Pieces == UNION { [1..n -> LogChars] : n \in 1..MaxPieceLen }
LogBuffers == UNION { [1..n -> Pieces] : n \in 0..MaxPieces }

\* pieces.join('')
RECURSIVE JoinAll(_)
JoinAll(pieces) ==
    IF pieces = << >> THEN << >> ELSE Head(pieces) \o JoinAll(Tail(pieces))

\* text.slice(start, end)
Slice(text, start, end) ==
    SubSeq(text, start + 1, IF end < Len(text) THEN end ELSE Len(text))

\* text.lastIndexOf('\n', fromIndex): the last index at or below fromIndex
\* that holds a newline, or -1
LastNewline(text, fromIndex) ==
    LET found == { i \in 0..(Len(text) - 1) : i <= fromIndex /\ text[i + 1] = "nl" }
    IN  IF found = {} THEN -1
        ELSE CHOOSE i \in found : \A j \in found : j <= i

\* the mutant of ChunkEnd: the chunk stops before the split point
ChunkEnd_Exclusive(splitPoint) == splitPoint

\* the end of the chunk cut at a split point (verify.ts:144)
ChunkEnd(splitPoint) == splitPoint + 1

\* the while loop of flushLogs and the push of what remains
\* (verify.ts:139-147)
RECURSIVE SplitChunks(_)
SplitChunks(remaining) ==
    IF Len(remaining) > MAX_CHUNK_SIZE
    THEN LET last == LastNewline(remaining, MAX_CHUNK_SIZE)
             splitPoint == IF last = -1 THEN MAX_CHUNK_SIZE ELSE last
         IN  << Slice(remaining, 0, ChunkEnd(splitPoint)) >>
                 \o SplitChunks(Slice(remaining, splitPoint + 1, Len(remaining)))
    ELSE IF remaining # << >> THEN << remaining >>
    ELSE << >>

\* the chunks flushLogs posts for a buffer, in order
flushLogs(logBuffer) ==
    IF Len(logBuffer) = 0 THEN << >> ELSE SplitChunks(JoinAll(logBuffer))

InitFlush ==
    /\ PathIdle
    /\ ApplyIdle
    /\ SysIdle
    /\ PollIdle
    /\ fnArg \in LogBuffers
    /\ fnRes = << >>
    /\ fnPc = "call"

FlushLogsCall ==
    /\ fnPc = "call"
    /\ fnRes' = flushLogs(fnArg)
    /\ fnPc' = "done"
    /\ UNCHANGED fnArg
    /\ UNCHANGED << pathVars, applyVars, sysVars, pollVars >>

NextFlush == FlushLogsCall

SpecFlush == InitFlush /\ [][NextFlush]_vars

\* C19: the chunks of one flush, concatenated in the order produced, are
\* the buffered text, and no chunk is empty.
C19_ChunksConcatenate ==
    fnPc = "done" =>
        /\ JoinAll(fnRes) = JoinAll(fnArg)
        /\ \A i \in 1..Len(fnRes) : fnRes[i] # << >>

\* C19 witness: a buffered text without a newline, longer than two chunks,
\* was flushed in several chunks.
C19_Witness ==
    /\ fnPc = "done"
    /\ Len(JoinAll(fnArg)) > 2 * MAX_CHUNK_SIZE
    /\ \A i \in 1..Len(JoinAll(fnArg)) : JoinAll(fnArg)[i] = "x"
    /\ Len(fnRes) >= 2

(***************************************************************************)
(* SpecRisk: assessRisk (part_000:32-89) applied to a list of changed       *)
(* files and a task.  A path and a task are sequences of words.             *)
(***************************************************************************)
MaxRiskFiles == 6

CRITICAL_PATHS ==
    { << "auth" >>, << "security" >>, << "api" >>, << "database" >>,
      << "config" >>, << ".", "env" >>, << "middleware" >>,
      << "hooks", "/", "use-auth" >> }

destructiveKeywords ==
    { << "delete" >>, << "remove" >>, << "reset" >>, << "drop" >>, << "wipe" >> }

\* toLowerCase on the words of a path or a task
LowerCased(s) ==
    [i \in 1..Len(s) |->
         IF s[i] = "Config" THEN "config"
         ELSE IF s[i] = "Remove" THEN "remove"
         ELSE s[i]]

\* src/auth/login.ts with 40 added and 5 deleted lines
AuthLogin ==
    [path |-> << "src", "/", "auth", "/", "login" >>, additions |-> 40,
     deletions |-> 5]

RiskFileSamples ==
    { AuthLogin,
      [path |-> << "src", "/", "Config" >>, additions |-> 0, deletions |-> 0],
      [path |-> << "src", "/", "utils" >>, additions |-> 200, deletions |-> 101],
      [path |-> << "readme" >>, additions |-> 1, deletions |-> 0] }

RiskFileLists == UNION { [1..n -> RiskFileSamples] : n \in 0..MaxRiskFiles }

DeleteTheAuthModule == << "delete", "the", "auth", "module" >>

RiskTasks ==
    { DeleteTheAuthModule, << "Remove", "old", "code" >>, << "add", "a", "readme" >> }

\* files.reduce((sum, f) => sum + f.additions + f.deletions, 0)
RECURSIVE TotalLines(_)
TotalLines(files) ==
    IF files = << >> THEN 0
    ELSE Head(files).additions + Head(files).deletions + TotalLines(Tail(files))

\* files.filter(f => CRITICAL_PATHS.some(cp => f.path.toLowerCase().includes(cp)))
InvolvedCriticalPaths(files) ==
    SelectSeq(files,
              LAMBDA f : \E cp \in CRITICAL_PATHS : Includes(LowerCased(f.path), cp))

\* the mutant of CriticalPoints: +5 for every file on a critical path
CriticalPoints_PerFile(involved) == 5 * Len(involved)

\* the points of the critical-path check (part_000:58-64)
CriticalPoints(involved) == IF Len(involved) > 0 THEN 5 ELSE 0

\* assessRisk: the score and the reported factors; a factor is its reason
\* and its severity
assessRisk(files, task) ==
    LET totalLines == TotalLines(files)
        involved == InvolvedCriticalPaths(files)
        destructive ==
            \E kw \in destructiveKeywords : Includes(LowerCased(task), kw)
        countFactor ==
            IF Len(files) > 5
            THEN << [reason |-> "Large number of files changed", severity |-> "medium"] >>
            ELSE << >>
        sizeFactor ==
            IF totalLines > 100
            THEN << [reason |-> "Large diff size", severity |-> "medium"] >>
            ELSE IF totalLines > 300
            THEN << [reason |-> "Very large diff size", severity |-> "high"] >>
            ELSE << >>
        criticalFactor ==
            IF Len(involved) > 0
            THEN << [reason |-> "Affects critical paths", severity |-> "high"] >>
            ELSE << >>
        destructiveFactor ==
            IF destructive
            THEN << [reason |-> "Task contains potentially destructive keywords",
                     severity |-> "medium"] >>
            ELSE << >>
        riskPoints ==
            (IF Len(files) > 5 THEN 2 ELSE 0)
            + (IF totalLines > 100 THEN 2 ELSE IF totalLines > 300 THEN 4 ELSE 0)
            + CriticalPoints(involved)
            + (IF destructive THEN 2 ELSE 0)
        factors == countFactor \o sizeFactor \o criticalFactor \o destructiveFactor
    IN  [score |-> IF riskPoints >= 7 THEN "high"
                   ELSE IF riskPoints >= 3 THEN "medium"
                   ELSE "low",
         factors |-> IF Len(factors) = 0
                     THEN << [reason |-> "Minor implementation change",
                              severity |-> "low"] >>
                     ELSE factors]

InitRisk ==
    /\ PathIdle
    /\ ApplyIdle
    /\ SysIdle
    /\ PollIdle
    /\ fnArg \in [files : RiskFileLists, task : RiskTasks]
    /\ fnRes = << >>
    /\ fnPc = "call"

AssessRiskCall ==
    /\ fnPc = "call"
    /\ fnRes' = assessRisk(fnArg.files, fnArg.task)
    /\ fnPc' = "done"
    /\ UNCHANGED fnArg
    /\ UNCHANGED << pathVars, applyVars, sysVars, pollVars >>

NextRisk == AssessRiskCall

SpecRisk == InitRisk /\ [][NextRisk]_vars

\* the points the scoring rules give a factor
FactorPoints(factor) ==
    IF factor.reason = "Large number of files changed" THEN 2
    ELSE IF factor.reason = "Large diff size" THEN 2
    ELSE IF factor.reason = "Very large diff size" THEN 4
    ELSE IF factor.reason = "Affects critical paths" THEN 5
    ELSE IF factor.reason = "Task contains potentially destructive keywords" THEN 2
    ELSE 0

RECURSIVE SumPoints(_)
SumPoints(factors) ==
    IF factors = << >> THEN 0
    ELSE FactorPoints(Head(factors)) + SumPoints(Tail(factors))

\* the score bands: below 3 low, 3 to 6 medium, 7 and above high
Band(points) ==
    IF points < 3 THEN "low" ELSE IF points <= 6 THEN "medium" ELSE "high"

\* C20: the score assessRisk returns is the band of the summed points of
\* the factors it reports; it reports at most one critical-path factor
\* however many files match; and for the task "delete the auth module" with
\* the one file src/auth/login.ts (40 added, 5 deleted) it reports a
\* critical-path factor and a destructive-keyword factor and scores high.
C20_ScoreIsBandOfFactors ==
    fnPc = "done" =>
        /\ fnRes.score = Band(SumPoints(fnRes.factors))
        /\ Cardinality({ i \in 1..Len(fnRes.factors) :
                             fnRes.factors[i].reason = "Affects critical paths" }) <= 1
        /\ (fnArg = [files |-> << AuthLogin >>, task |-> DeleteTheAuthModule]) =>
               /\ fnRes.score = "high"
               /\ { fnRes.factors[i].reason : i \in 1..Len(fnRes.factors) } =
                      { "Affects critical paths",
                        "Task contains potentially destructive keywords" }

\* C20 witness: several files on critical paths, one critical-path factor,
\* a score of medium: the +5 was counted once.
C20_Witness ==
    /\ fnPc = "done"
    /\ Len(InvolvedCriticalPaths(fnArg.files)) >= 2
    /\ fnRes.score = "medium"
    /\ \E i \in 1..Len(fnRes.factors) :
           fnRes.factors[i].reason = "Affects critical paths"

\* C21: a change of more than 300 lines in total gets the very-large factor
\* with its 4 points, besides the large factor of the 100-line check.
C21_VeryLargeFactor ==
    (fnPc = "done" /\ TotalLines(fnArg.files) > 300) =>
        /\ \E i \in 1..Len(fnRes.factors) :
               fnRes.factors[i].reason = "Very large diff size"
        /\ \E i \in 1..Len(fnRes.factors) :
               fnRes.factors[i].reason = "Large diff size"

\* the edges of the lifecycle graph
LifecycleEdges ==
    { << "queued", "running" >>, << "running", "verifying" >>,
      << "verifying", "awaiting_approval" >>, << "verifying", "failed" >>,
      << "awaiting_approval", "approved" >>, << "awaiting_approval", "failed" >>,
      << "approved", "applying" >>, << "applying", "completed" >>,
      << "running", "failed" >> }
    \cup { << from, "cancelled" >> :
               from \in { "queued", "running", "verifying", "awaiting_approval",
                          "approved", "applying" } }

\* C22: every step that changes a run's status takes it along an edge of
\* the lifecycle graph.
C22_LifecycleEdgesOnly ==
    [][ \A r \in Runs :
            runStatus'[r] # runStatus[r] =>
                << runStatus[r], runStatus'[r] >> \in LifecycleEdges ]_vars

\* the RUN_STARTED events claim-run has inserted for run r: the handler
\* inserts one right before each response that carries the run
\* (runner/index.ts:205-209 and 246-250)
RunStartedEvents(r) == grantedById[r] + grantedOldest[r]

\* C23: a step of claim-run that appends a RUN_STARTED event for a run is
\* the step whose conditional update changed the run from queued to
\* running.
C23_RunStartedOnlyOnClaim ==
    [][ \A r \in Runs :
            RunStartedEvents(r)' > RunStartedEvents(r) =>
                runStatus[r] = "queued" /\ runStatus'[r] = "running" ]_vars

(***************************************************************************)
(* SpecGather: phase 1 of executeRun (runner.ts:88-136) with its tool calls *)
(* made through emitToolCall (runner.ts:298-378).  The input says how many  *)
(* keywords the task yields, whether the search found a file, and which     *)
(* of the calls has its tool throw.                                         *)
(***************************************************************************)
\* task.split(' ').filter(...).slice(0, 2): at most two keywords
MaxKeywords == 2

\* the tool calls of phase 1, in order
ToolCalls(keywords, found) ==
    << "repo.getInfo", "repo.listFiles" >>
        \o [i \in 1..keywords |-> "repo.search"]
        \o (IF found THEN << "repo.open", "indexer.extract" >> ELSE << >>)

\* getRepoInfo catches what it does (tools/repo.ts:198-222); listFiles,
\* search, openFile and extractSymbols let an error out
CanThrow(tool) == tool # "repo.getInfo"

\* the calls of phase 1 from call i on: emitToolCall posts TOOL_COMPLETED
\* with the result, or with the error, which it then throws again
\* (runner.ts:357-377) into the catch block of executeRun
RECURSIVE GatherFrom(_, _, _, _)
GatherFrom(i, calls, throwing, completed) ==
    IF i > Len(calls)
    THEN [completed |-> completed, next |-> "verifying"]
    ELSE IF i \in throwing /\ CanThrow(calls[i])
    THEN [completed |-> Append(completed, [tool |-> calls[i], error |-> TRUE]),
          next |-> "catch"]
    ELSE GatherFrom(i + 1, calls, throwing,
                    Append(completed, [tool |-> calls[i], error |-> FALSE]))

InitGather ==
    /\ PathIdle
    /\ ApplyIdle
    /\ SysIdle
    /\ PollIdle
    /\ fnArg \in [keywords : 0..MaxKeywords, found : BOOLEAN,
                  throwing : SUBSET (1..(MaxKeywords + 4))]
    /\ fnArg.found => fnArg.keywords > 0
    /\ fnRes = << >>
    /\ fnPc = "call"

GatherContext ==
    /\ fnPc = "call"
    /\ fnRes' = GatherFrom(1, ToolCalls(fnArg.keywords, fnArg.found),
                           fnArg.throwing, << >>)
    /\ fnPc' = "done"
    /\ UNCHANGED fnArg
    /\ UNCHANGED << pathVars, applyVars, sysVars, pollVars >>

NextGather == GatherContext

SpecGather == InitGather /\ [][NextGather]_vars

\* C24: when at least one tool call of phase 1 succeeded, the run goes on
\* to verifying, every failed call being recorded by a TOOL_COMPLETED event
\* with an error.
C24_ToolFailureDoesNotAbort ==
    (fnPc = "done"
         /\ \E i \in 1..Len(fnRes.completed) : ~fnRes.completed[i].error) =>
        fnRes.next = "verifying"

\* the patch has an entry whose diff deletes a file: its target is /dev/null
HasDeletion ==
    /\ apPatch.shape = "text"
    /\ \E i \in 1..Len(apPatch.files) : apPatch.files[i].diff.newFileName = DevNull

\* C25: an applyDiff call on a diff with a file deletion removes no file
\* and returns a warning for the deletion.
C25_DeletionSkippedWithWarning ==
    (apPc \in { "applied", "failed" } /\ HasDeletion) =>
        /\ DOMAIN apFs0 \subseteq DOMAIN apFs
        /\ \E i \in 1..Len(apResult.warnings) :
               apResult.warnings[i] = "File deletion requested but skipped"

\* the file patches applyDiff got in the attempt
AttemptPatches == ParseFullDiff(apPatch.files)

\* applyDiff ran and its pre-validation found no error
RanPastValidation ==
    /\ apPc \in { "applied", "failed" }
    /\ PreValidate(apCfg, AttemptPatches) = << >>

\* file patch p changes an existing file that had the text it was made
\* against when the attempt began
AppliesCleanly(p) ==
    LET oldPath == StripAB(p.oldFileName)
        newPath == StripAB(p.newFileName)
        fullPath == PathJoin(apCfg.repoPath, newPath)
    IN  /\ newPath # << >> /\ oldPath # << >> /\ oldPath # DevNull
        /\ fullPath \in DOMAIN apFs0
        /\ apFs0[fullPath] = "base"

\* C26: when applyDiff has passed its path validation, every file patch
\* ends in exactly one of an error, a warning or a written file; a file
\* patch that applies cleanly is written whatever happened to the file
\* patches before it; success is true exactly when there is no error; and
\* filesAffected counts the writes, so that no more files changed than it
\* says.
C26_PartialApplyResult ==
    RanPastValidation =>
        /\ Len(apResult.errors) + Len(apResult.warnings) + apResult.filesAffected
               = Len(AttemptPatches)
        /\ \A i \in 1..Len(AttemptPatches) :
               AppliesCleanly(AttemptPatches[i]) =>
                   apFs[PathJoin(apCfg.repoPath,
                                 StripAB(AttemptPatches[i].newFileName))] = "patched"
        /\ apResult.success <=> apResult.errors = << >>
        /\ Cardinality({ f \in DOMAIN apFs :
                             f \notin DOMAIN apFs0 \/ apFs[f] # apFs0[f] })
               <= apResult.filesAffected

\* C26 witness: the first file patch did not apply to the file's changed
\* text, the second one was written: one error, one file affected, success
\* false.
C26_Witness ==
    /\ RanPastValidation
    /\ Len(AttemptPatches) = 2
    /\ ~AppliesCleanly(AttemptPatches[1])
    /\ apResult.errors = << "Failed to apply patch" >>
    /\ apResult.filesAffected = 1
    /\ apFs # apFs0
    /\ ~apResult.success

\* ---------------------------------------------------------------------
\* runVerification and runVerifyCommand, one step at a time (verify.ts).
\* fnArg holds what getPackageManagerCommands detected, fnRes the state of
\* the call, fnPc the position of runVerification.
\* ---------------------------------------------------------------------

\* the commands getPackageManagerCommands can detect, in the order
\* runVerification looks at them
VerifyCommands == { "typecheck", "test" }

\* the code of a 'close' event: << n >> for a number, << >> for null (the
\* process was ended by a signal, as by the timeout of spawn)
NullCode == << >>

\* the codes a launched process can close with
ExitCodes == { << 0 >>, << 1 >>, NullCode }

\* the code 'close' carries when it follows a failed launch: the errno of
\* the failure (ENOENT)
SpawnErrno == << 0 - 2 >>

\* a command that was not started
CommandIdle ==
    [ proc |-> "idle", error |-> FALSE, code |-> NullCode,
      errorHandler |-> "idle", closeHandler |-> "idle",
      promise |-> "none", resolves |-> << >> ]

\* the result object the handlers build
VerifyResult(c, exitCode) ==
    [ command |-> c, exitCode |-> exitCode, passed |-> (exitCode = 0) ]

\* resolve(value): the first call settles the promise, a later one changes
\* nothing of it
Resolve(cmd, value) ==
    [ cmd EXCEPT !.resolves = Append(@, value), !.promise = "resolved" ]

\* the value the promise of a command was settled with
Settled(cmd) == cmd.resolves[1]

\* the position of runVerification after command c
AfterCommand(c) == IF c = "typecheck" THEN "test" ELSE "finished"

\* the mutant of NextCommand: a failed type-check ends the verification
NextCommand_SkipAfterFailure(c, result) ==
    IF c = "typecheck" /\ ~result.passed THEN "finished" ELSE AfterCommand(c)

\* verify.ts:266-270, 283-287: the result is pushed, a failure is only
\* logged, and runVerification goes on
NextCommand(c, result) == AfterCommand(c)

\* verify.ts:292
everyPassed(results) ==
    Len(results) > 0 /\ \A i \in 1..Len(results) : results[i].passed

\* runVerification is running or has ended
Verifying == fnPc \in { "typecheck", "test", "finished", "done", "rejected" }

InitVerify ==
    /\ PathIdle /\ ApplyIdle /\ SysIdle /\ PollIdle
    /\ fnArg \in [ typecheck : BOOLEAN, test : BOOLEAN ]
    /\ fnRes = << >>
    /\ fnPc = "call"

\* verify.ts:243-254: runVerification begins with an empty result list
RunVerification ==
    /\ fnPc = "call"
    /\ fnRes' = [ cmd |-> [ c \in VerifyCommands |-> CommandIdle ],
                  started |-> << >>, results |-> << >>, returned |-> << >> ]
    /\ fnPc' = "typecheck"
    /\ UNCHANGED fnArg
    /\ UNCHANGED << pathVars, applyVars, sysVars, pollVars >>

\* verify.ts:271-273, 288-290: a command that was not detected is skipped
SkipCommand(c) ==
    /\ fnPc = c
    /\ ~fnArg[c]
    /\ fnPc' = AfterCommand(c)
    /\ UNCHANGED << fnArg, fnRes >>
    /\ UNCHANGED << pathVars, applyVars, sysVars, pollVars >>

\* verify.ts:94-124: runVerifyCommand posts VERIFY_STARTED, which throws
\* when its retries are used up (supabase.ts:110-122), and then spawns
\* the process
VerifyStarted(c, posted) ==
    /\ fnPc = c
    /\ fnArg[c]
    /\ fnRes.cmd[c].proc = "idle"
    /\ IF posted
       THEN /\ fnRes' = [ fnRes EXCEPT !.cmd[c].proc = "running",
                                       !.cmd[c].promise = "pending",
                                       !.started = Append(@, c) ]
            /\ UNCHANGED fnPc
       ELSE /\ fnPc' = "rejected"
            /\ UNCHANGED fnRes
    /\ UNCHANGED fnArg
    /\ UNCHANGED << pathVars, applyVars, sysVars, pollVars >>

\* the process could not be launched: 'error' is emitted and its handler
\* begins (verify.ts:220)
ProcError(c) ==
    /\ Verifying
    /\ fnRes.cmd[c].proc = "running"
    /\ fnRes' = [ fnRes EXCEPT !.cmd[c].proc = "errored",
                               !.cmd[c].error = TRUE,
                               !.cmd[c].errorHandler = "post" ]
    /\ UNCHANGED << fnArg, fnPc >>
    /\ UNCHANGED << pathVars, applyVars, sysVars, pollVars >>

\* 'close' is emitted and its handler begins (verify.ts:190): with the
\* exit code of the process, with null, or, after a failed launch, with
\* the errno of the failure
ProcClose(c, code) ==
    /\ Verifying
    /\ \/ fnRes.cmd[c].proc = "running" /\ code \in ExitCodes
       \/ fnRes.cmd[c].proc = "errored" /\ code = SpawnErrno
    /\ fnRes' = [ fnRes EXCEPT !.cmd[c].proc = "closed",
                               !.cmd[c].code = code,
                               !.cmd[c].closeHandler = "flush" ]
    /\ UNCHANGED << fnArg, fnPc >>
    /\ UNCHANGED << pathVars, applyVars, sysVars, pollVars >>

\* verify.ts:191-192 with 131-158: await flushLogs() posts one VERIFY_LOG
\* per chunk of buffered output; a post that throws ends the handler
CloseFlush(c, chunks, posted) ==
    /\ Verifying
    /\ fnRes.cmd[c].closeHandler = "flush"
    /\ posted \/ chunks > 0
    /\ fnRes.cmd[c].error => chunks = 0
    /\ fnRes' = [ fnRes EXCEPT !.cmd[c].closeHandler =
                                   IF posted THEN "post" ELSE "rejected" ]
    /\ UNCHANGED << fnArg, fnPc >>
    /\ UNCHANGED << pathVars, applyVars, sysVars, pollVars >>

\* verify.ts:194-217: exitCode = code ?? 1, VERIFY_COMMAND_FINISHED is
\* posted and, when the post returned, the promise is resolved
ClosePost(c, posted) ==
    LET code == fnRes.cmd[c].code
        exitCode == IF code = NullCode THEN 1 ELSE code[1]
    IN  /\ Verifying
        /\ fnRes.cmd[c].closeHandler = "post"
        /\ fnRes' = [ fnRes EXCEPT !.cmd[c] =
                        IF posted
                        THEN [ Resolve(@, VerifyResult(c, exitCode))
                                 EXCEPT !.closeHandler = "done" ]
                        ELSE [ @ EXCEPT !.closeHandler = "rejected" ] ]
        /\ UNCHANGED << fnArg, fnPc >>
        /\ UNCHANGED << pathVars, applyVars, sysVars, pollVars >>

\* verify.ts:220-236: the 'error' handler posts the error as a VERIFY_LOG
\* and, when the post returned, resolves with exit code 1
ErrorPost(c, posted) ==
    /\ Verifying
    /\ fnRes.cmd[c].errorHandler = "post"
    /\ fnRes' = [ fnRes EXCEPT !.cmd[c] =
                    IF posted
                    THEN [ Resolve(@, VerifyResult(c, 1))
                             EXCEPT !.errorHandler = "done" ]
                    ELSE [ @ EXCEPT !.errorHandler = "rejected" ] ]
    /\ UNCHANGED << fnArg, fnPc >>
    /\ UNCHANGED << pathVars, applyVars, sysVars, pollVars >>

\* verify.ts:260-270, 277-287: the await of runVerifyCommand returns the
\* value the promise was resolved with, and the result is pushed
CommandReturns(c) ==
    /\ fnPc = c
    /\ fnRes.cmd[c].promise = "resolved"
    /\ fnRes' = [ fnRes EXCEPT !.results = Append(@, Settled(fnRes.cmd[c])) ]
    /\ fnPc' = NextCommand(c, Settled(fnRes.cmd[c]))
    /\ UNCHANGED fnArg
    /\ UNCHANGED << pathVars, applyVars, sysVars, pollVars >>

\* verify.ts:292-309: VERIFY_FINISHED is posted and the results returned
VerifyFinished(posted) ==
    /\ fnPc = "finished"
    /\ IF posted
       THEN /\ fnRes' = [ fnRes EXCEPT !.returned =
                            << [ passed |-> everyPassed(fnRes.results),
                                 results |-> fnRes.results ] >> ]
            /\ fnPc' = "done"
       ELSE /\ fnPc' = "rejected"
            /\ UNCHANGED fnRes
    /\ UNCHANGED fnArg
    /\ UNCHANGED << pathVars, applyVars, sysVars, pollVars >>

NextVerify ==
    \/ RunVerification
    \/ \E c \in VerifyCommands : SkipCommand(c)
    \/ \E c \in VerifyCommands, posted \in BOOLEAN : VerifyStarted(c, posted)
    \/ \E c \in VerifyCommands : ProcError(c)
    \/ \E c \in VerifyCommands, code \in ExitCodes \cup { SpawnErrno } :
           ProcClose(c, code)
    \/ \E c \in VerifyCommands, chunks \in 0..1, posted \in BOOLEAN :
           CloseFlush(c, chunks, posted)
    \/ \E c \in VerifyCommands, posted \in BOOLEAN : ClosePost(c, posted)
    \/ \E c \in VerifyCommands, posted \in BOOLEAN : ErrorPost(c, posted)
    \/ \E c \in VerifyCommands : CommandReturns(c)
    \/ \E posted \in BOOLEAN : VerifyFinished(posted)

SpecVerify == InitVerify /\ [][NextVerify]_vars

\* the detected commands in the order runVerification runs them
DetectedCommands ==
    (IF fnArg.typecheck THEN << "typecheck" >> ELSE << >>)
        \o (IF fnArg.test THEN << "test" >> ELSE << >>)

\* C27: runVerification runs the detected commands one after another: the
\* test command is started only after the type-check command has
\* finished, it is started also when the type-check failed, and the
\* returned list holds the result of every detected command, in order,
\* with passed = (the list is not empty and every result passed).
C27_SequentialCommands ==
    /\ (Verifying /\ fnRes.cmd["test"].proc # "idle" /\ fnArg.typecheck) =>
           /\ fnRes.cmd["typecheck"].proc \in { "errored", "closed" }
           /\ fnRes.cmd["typecheck"].promise = "resolved"
           /\ Len(fnRes.results) >= 1
           /\ fnRes.results[1] = Settled(fnRes.cmd["typecheck"])
    /\ (fnPc \in { "finished", "done" } /\ fnArg.test) =>
           fnRes.cmd["test"].proc # "idle"
    /\ fnPc = "done" =>
           LET ret == fnRes.returned[1]
           IN  /\ Len(ret.results) = Len(DetectedCommands)
               /\ \A i \in 1..Len(ret.results) :
                      ret.results[i] = Settled(fnRes.cmd[DetectedCommands[i]])
               /\ ret.passed <=>
                      (ret.results # << >>
                         /\ \A i \in 1..Len(ret.results) :
                                ret.results[i].exitCode = 0)

\* C27 witness: the type-check failed, the tests ran and passed, and both
\* results were returned with passed false.
C27_Witness ==
    /\ fnPc = "done"
    /\ DetectedCommands = << "typecheck", "test" >>
    /\ fnRes.returned[1].results[1].exitCode = 1
    /\ fnRes.returned[1].results[2].exitCode = 0
    /\ ~fnRes.returned[1].passed

\* both handlers of command c have ended or were never started
HandlersEnded(c) ==
    /\ fnRes.cmd[c].errorHandler \in { "idle", "done", "rejected" }
    /\ fnRes.cmd[c].closeHandler \in { "idle", "done", "rejected" }

\* C28: when the process could not be launched, or closed with a null
\* exit code, runVerifyCommand resolves with exitCode = 1 and
\* passed = false.
C28_LaunchFailureOrNullExit ==
    Verifying =>
        \A c \in VerifyCommands :
            ( /\ \/ fnRes.cmd[c].error
                 \/ fnRes.cmd[c].proc = "closed" /\ fnRes.cmd[c].code = NullCode
              /\ HandlersEnded(c) ) =>
                /\ fnRes.cmd[c].promise = "resolved"
                /\ Settled(fnRes.cmd[c]).exitCode = 1
                /\ ~Settled(fnRes.cmd[c]).passed

\* C29: when the process has closed and its 'close' handler has ended,
\* also by a VERIFY_LOG or VERIFY_COMMAND_FINISHED post that failed,
\* runVerifyCommand has resolved.
C29_ResolvesDespitePostFailure ==
    Verifying =>
        \A c \in VerifyCommands :
            (fnRes.cmd[c].proc = "closed" /\ HandlersEnded(c)) =>
                fnRes.cmd[c].promise = "resolved"

\* ---------------------------------------------------------------------
\* withRetry (supabase.ts:25-46).  fn is given by what its successive
\* invocations do: return ("ok") or throw one of two errors.
\* ---------------------------------------------------------------------

\* the largest maxRetries tried (heartbeat uses 3, the posts use 2)
MaxRetryBudget == 3

\* what one invocation of fn does
AttemptOutcomes == { "ok", "errA", "errB" }

\* fn: the outcome of its k-th invocation, one more than any budget
RetryFns == [ 1..(MaxRetryBudget + 1) -> AttemptOutcomes ]

\* lastError before any attempt failed
NullError == "null"

\* supabase.ts:32-45: the loop from attempt on; the value returned is
\* tagged with the invocation that produced it, waits are the multiples
\* of delayMs slept between attempts
RECURSIVE RetryLoop(_, _, _, _, _)
RetryLoop(fn, maxRetries, attempt, lastError, waits) ==
    IF attempt < maxRetries
    THEN IF fn[attempt + 1] = "ok"
         THEN [ outcome |-> "returned", value |-> attempt + 1,
                calls |-> attempt + 1, waits |-> waits ]
         ELSE RetryLoop(fn, maxRetries, attempt + 1, fn[attempt + 1],
                        IF attempt < maxRetries - 1
                        THEN Append(waits, attempt + 1) ELSE waits)
    ELSE [ outcome |-> "thrown", value |-> lastError,
           calls |-> attempt, waits |-> waits ]

\* the mutant of withRetry: one attempt more than maxRetries
withRetry_OneMore(fn, maxRetries) ==
    RetryLoop(fn, maxRetries + 1, 0, NullError, << >>)

\* supabase.ts:25-46
withRetry(fn, maxRetries) ==
    RetryLoop(fn, maxRetries, 0, NullError, << >>)

InitRetry ==
    /\ PathIdle /\ ApplyIdle /\ SysIdle /\ PollIdle
    /\ fnArg \in [ fn : RetryFns, maxRetries : 0..MaxRetryBudget ]
    /\ fnRes = << >>
    /\ fnPc = "call"

WithRetryCall ==
    /\ fnPc = "call"
    /\ fnRes' = withRetry(fnArg.fn, fnArg.maxRetries)
    /\ fnPc' = "done"
    /\ UNCHANGED fnArg
    /\ UNCHANGED << pathVars, applyVars, sysVars, pollVars >>

NextRetry == WithRetryCall

SpecRetry == InitRetry /\ [][NextRetry]_vars

\* the invocations of fn within the budget that succeed
SuccessfulAttempts ==
    { k \in 1..fnArg.maxRetries : fnArg.fn[k] = "ok" }

\* C30: withRetry(fn, maxRetries) invokes fn at most maxRetries times;
\* when an attempt within the budget succeeds it returns the result of
\* the first such attempt and has invoked fn no further; when all
\* maxRetries attempts fail it throws the error of the last attempt.
C30_WithRetry ==
    fnPc = "done" =>
        /\ fnRes.calls <= fnArg.maxRetries
        /\ SuccessfulAttempts # {} =>
               /\ fnRes.outcome = "returned"
               /\ \A k \in SuccessfulAttempts : fnRes.value <= k
               /\ fnRes.value \in SuccessfulAttempts
               /\ fnRes.calls = fnRes.value
        /\ (SuccessfulAttempts = {} /\ fnArg.maxRetries >= 1) =>
               /\ fnRes.outcome = "thrown"
               /\ fnRes.value = fnArg.fn[fnArg.maxRetries]
               /\ fnRes.calls = fnArg.maxRetries

\* C30 witness: two attempts, both failed with different errors, and the
\* second error was thrown although a third invocation would have
\* succeeded.
C30_Witness ==
    /\ fnPc = "done"
    /\ fnArg.maxRetries = 2
    /\ fnArg.fn[1] = "errA" /\ fnArg.fn[2] = "errB" /\ fnArg.fn[3] = "ok"
    /\ fnRes.outcome = "thrown"
    /\ fnRes.value = "errB"
    /\ fnRes.calls = 2

\* ---------------------------------------------------------------------
\* postEvents (supabase.ts:110-122) against POST /runner/events
\* (runner/index.ts:131-164).  fnArg.events is the batch of one call, an
\* event standing for its position in the batch; fnRes.log is the
\* run_events table.
\* ---------------------------------------------------------------------

\* the longest batch tried
MaxBatch == 3

\* supabase.ts:121: withRetry(..., 2, 300)
PostRetries == 2

\* runner/index.ts:10
MAX_EVENTS_PER_REQUEST == 50

\* the event types of the sample batches
BatchEventTypes == { "VERIFY_LOG", "VERIFY_COMMAND_FINISHED" }

EventBatches == UNION { [ 1..n -> BatchEventTypes ] : n \in 0..MaxBatch }

\* runner/index.ts:143-154: the rows one request inserts, each carrying
\* the position of its event in the batch
EventsToInsert(batch) ==
    LET n == IF Len(batch) > MAX_EVENTS_PER_REQUEST
             THEN MAX_EVENTS_PER_REQUEST ELSE Len(batch)
    IN  [ i \in 1..n |-> [ event_type |-> batch[i], position |-> i ] ]

\* runner/index.ts:155: supabase.from("run_events").insert(eventsToInsert)
InsertEvents(log, batch) == log \o EventsToInsert(batch)

InitPost ==
    /\ PathIdle /\ ApplyIdle /\ SysIdle /\ PollIdle
    /\ fnArg \in [ events : EventBatches ]
    /\ fnRes = [ log |-> << >>, attempt |-> 0, lastError |-> NullError ]
    /\ fnPc = "call"

\* one attempt of withRetry's loop (supabase.ts:32-43) with the fetch of
\* postEvents (supabase.ts:112-120): the request reaches the server or
\* not; the server answers 400 to an empty batch and inserts otherwise;
\* the response reaches the worker or not
PostAttempt(requestArrived, responseArrived) ==
    LET served == requestArrived /\ fnArg.events # << >>
        ok == served /\ responseArrived
        lastError == IF requestArrived /\ responseArrived
                     THEN "Post events failed" ELSE "fetch failed"
    IN  /\ fnPc \in { "call", "retry" }
        /\ responseArrived => requestArrived
        /\ fnRes' = [ log |-> IF served
                              THEN InsertEvents(fnRes.log, fnArg.events)
                              ELSE fnRes.log,
                      attempt |-> fnRes.attempt + 1,
                      lastError |-> IF ok THEN fnRes.lastError ELSE lastError ]
        /\ fnPc' = IF ok THEN "returned"
                   ELSE IF fnRes.attempt + 1 < PostRetries THEN "retry"
                   ELSE "thrown"
        /\ UNCHANGED fnArg
        /\ UNCHANGED << pathVars, applyVars, sysVars, pollVars >>

NextPost ==
    \E requestArrived \in BOOLEAN, responseArrived \in BOOLEAN :
        PostAttempt(requestArrived, responseArrived)

SpecPost == InitPost /\ [][NextPost]_vars

\* how many rows of the event log came from position i of the batch
TimesStored(i) ==
    Cardinality({ j \in 1..Len(fnRes.log) : fnRes.log[j].position = i })

\* C31: each event passed to one postEvents call is appended to the
\* run's event log at most once, whatever attempts were retried.
C31_EventsStoredAtMostOnce ==
    \A i \in 1..Len(fnArg.events) : TimesStored(i) <= 1

\* C32: every chunk one flush produces has at most MAX_CHUNK_SIZE
\* characters, whether the split fell on a newline or inside a line.
C32_ChunkSizeBounded ==
    fnPc = "done" =>
        \A i \in 1..Len(fnRes) : Len(fnRes[i]) <= MAX_CHUNK_SIZE

\* ---------------------------------------------------------------------
\* The log stream of one verification command (verify.ts:126-218):
\* handleOutput, scheduledFlush, flushLogs and the 'close' handler, with
\* the flushes of flushLogs running concurrently.  fnArg is the output of
\* the process, piece by piece; fnRes holds the buffer, the timer, the
\* flushes in progress and the run's event log.  Every post succeeds at
\* its first attempt here.
\* ---------------------------------------------------------------------

\* the most pieces of output a process writes
MaxOutputs == 2

\* the pieces a process writes
StreamPieces ==
    { << "a" >>, << "b", "b", "b", "b" >>, << "c", "nl" >> }

ProcessOutputs == UNION { [ 1..n -> StreamPieces ] : n \in 1..MaxOutputs }

\* verify.ts:131-158 up to the first await: nothing for an empty buffer;
\* otherwise the buffer is taken and emptied and a flush begins that will
\* post the chunks one after another
BeginFlush(st) ==
    IF Len(st.logBuffer) = 0 THEN st
    ELSE [ st EXCEPT !.logBuffer = << >>,
                     !.flushes = Append(@, flushLogs(st.logBuffer)) ]

\* logBuffer.reduce((sum, s) => sum + s.length, 0)
BufferSize(logBuffer) == Len(JoinAll(logBuffer))

InitStream ==
    /\ PathIdle /\ ApplyIdle /\ SysIdle /\ PollIdle
    /\ fnArg \in ProcessOutputs
    /\ fnRes = [ emitted |-> 0, logBuffer |-> << >>, flushTimeout |-> FALSE,
                 flushes |-> << >>, finalFlush |-> 0, log |-> << >> ]
    /\ fnPc = "running"

\* verify.ts:174-185 with scheduledFlush (161-172): the piece is pushed,
\* the timer cleared, and the buffer flushed at once when it is larger
\* than a chunk, or the timer set again otherwise
HandleOutput ==
    LET pushed == [ fnRes EXCEPT !.emitted = @ + 1,
                                 !.logBuffer = Append(@, fnArg[fnRes.emitted + 1]) ]
    IN  /\ fnPc = "running"
        /\ fnRes.emitted < Len(fnArg)
        /\ fnRes' = IF BufferSize(pushed.logBuffer) > MAX_CHUNK_SIZE
                    THEN [ BeginFlush(pushed) EXCEPT !.flushTimeout = FALSE ]
                    ELSE [ pushed EXCEPT !.flushTimeout = TRUE ]
        /\ UNCHANGED << fnArg, fnPc >>
        /\ UNCHANGED << pathVars, applyVars, sysVars, pollVars >>

\* verify.ts:170: setTimeout(flushLogs, 100) fires
FlushTimeoutFires ==
    /\ fnPc \in { "running", "closing", "done" }
    /\ fnRes.flushTimeout
    /\ fnRes' = [ BeginFlush(fnRes) EXCEPT !.flushTimeout = FALSE ]
    /\ UNCHANGED << fnArg, fnPc >>
    /\ UNCHANGED << pathVars, applyVars, sysVars, pollVars >>

\* verify.ts:149-157: the post of the next chunk of flush f is served and
\* the loop of that flush goes on
PostChunk(f) ==
    /\ fnPc \in { "running", "closing", "done" }
    /\ f \in 1..Len(fnRes.flushes)
    /\ fnRes.flushes[f] # << >>
    /\ fnRes' = [ fnRes EXCEPT
                    !.log = Append(@, [ type |-> "VERIFY_LOG",
                                        content |-> Head(fnRes.flushes[f]) ]),
                    !.flushes[f] = Tail(@) ]
    /\ UNCHANGED << fnArg, fnPc >>
    /\ UNCHANGED << pathVars, applyVars, sysVars, pollVars >>

\* verify.ts:190-192: 'close' comes when the output has ended; the
\* handler begins the final flush and awaits it
OnClose ==
    /\ fnPc = "running"
    /\ fnRes.emitted = Len(fnArg)
    /\ fnRes' = [ BeginFlush(fnRes) EXCEPT
                    !.finalFlush = IF Len(fnRes.logBuffer) = 0 THEN 0
                                   ELSE Len(fnRes.flushes) + 1 ]
    /\ fnPc' = "closing"
    /\ UNCHANGED fnArg
    /\ UNCHANGED << pathVars, applyVars, sysVars, pollVars >>

\* verify.ts:194-217: the final flush has posted its chunks;
\* VERIFY_COMMAND_FINISHED is posted and the promise resolved
OnCloseFinished ==
    /\ fnPc = "closing"
    /\ IF fnRes.finalFlush = 0 THEN TRUE
       ELSE fnRes.flushes[fnRes.finalFlush] = << >>
    /\ fnRes' = [ fnRes EXCEPT
                    !.log = Append(@, [ type |-> "VERIFY_COMMAND_FINISHED",
                                        content |-> << >> ]) ]
    /\ fnPc' = "done"
    /\ UNCHANGED fnArg
    /\ UNCHANGED << pathVars, applyVars, sysVars, pollVars >>

NextStream ==
    \/ HandleOutput
    \/ FlushTimeoutFires
    \/ \E f \in 1..(MaxOutputs + 1) : PostChunk(f)
    \/ OnClose
    \/ OnCloseFinished

SpecStream == InitStream /\ [][NextStream]_vars

\* the contents of the VERIFY_LOG events of the log, concatenated in log
\* order
LoggedText ==
    JoinAll([ i \in 1..Len(fnRes.log) |-> fnRes.log[i].content ])

\* the output the process has written so far
EmittedText == JoinAll(SubSeq(fnArg, 1, fnRes.emitted))

\* C33: the VERIFY_LOG events of a command are in the event log in the
\* order the output was produced and all before VERIFY_COMMAND_FINISHED:
\* the logged text is always the beginning of the output, and the whole
\* output once VERIFY_COMMAND_FINISHED is in the log.
C33_LogsInOutputOrder ==
    fnPc \in { "running", "closing", "done" } =>
        /\ Len(LoggedText) <= Len(EmittedText)
        /\ LoggedText = SubSeq(EmittedText, 1, Len(LoggedText))
        /\ fnPc = "done" =>
               /\ LoggedText = JoinAll(fnArg)
               /\ fnRes.log[Len(fnRes.log)].type = "VERIFY_COMMAND_FINISHED"

\* C34: every run this worker has claimed is executed by it: no call of
\* executeRun for a claimed run returns at the isProcessing guard and
\* leaves the run behind.
C34_ClaimedRunIsExecuted ==
    \A t \in Ticks :
        (pollRun[t] # NoRun /\ pollPc[t] \notin { "claim", "call", "done" }) =>
            pollPc[t] = "pipeline"

\* the worker has no run in hand: it never executed one, or the run it
\* executed has reached failed or completed and executeRun has returned
WorkerFinished ==
    /\ ~pollBusy
    /\ \A t \in Ticks : pollPc[t] \in { "idle", "skipped", "dropped", "done" }
    /\ pollCurrent # NoRun =>
           pollStatus[pollCurrent] \in { "failed", "completed" }

\* C35: a worker that has finished its run claims and executes another
\* queued run on a later poll tick: a tick that fires when the worker has
\* finished and a run is queued goes on to query the queue, which is the
\* only way to a claim.
C35_ClaimsAgainAfterFinishing ==
    [][ \A t \in Ticks :
          ( /\ WorkerFinished
            /\ \E r \in PollRuns : pollStatus[r] = "queued"
            /\ pollPc[t] = "idle" /\ pollPc'[t] # "idle" ) =>
                pollPc'[t] = "query" ]_vars

\* ---------------------------------------------------------------------
\* The checkApprovals callback of watchForApprovals (patch.ts:239-316)
\* fired NumWatchTicks times by setInterval for a run whose one patch is
\* approved.  A firing does not wait for the one before it.  fnArg is
\* the patch's files_changed; fnRes holds each firing's position, the
\* applied flag of the patch row, the worker's files and every applyDiff
\* call made.
\* ---------------------------------------------------------------------

NumWatchTicks == 2

WatchTicks == 1..NumWatchTicks

\* the approved patches watched: text diffs of one or two files
WatchedPatches == UNION { [ 1..n -> FileSamples ] : n \in 1..MaxPatchFiles }

InitWatch ==
    /\ PathIdle /\ ApplyIdle /\ SysIdle /\ PollIdle
    /\ fnArg \in WatchedPatches
    /\ fnRes = [ pc |-> [ t \in WatchTicks |-> "idle" ], applied |-> FALSE,
                 fs |-> WorkerFs0, applies |-> << >>, errors |-> 0 ]
    /\ fnPc = "watching"

\* patch.ts:313: the interval fires and the query is sent
WatchFire(t) ==
    /\ fnPc = "watching"
    /\ fnRes.pc[t] = "idle"
    /\ fnRes' = [ fnRes EXCEPT !.pc[t] = "query" ]
    /\ UNCHANGED << fnArg, fnPc >>
    /\ UNCHANGED << pathVars, applyVars, sysVars, pollVars >>

\* patch.ts:240-252: the rows with approved = true and applied = false
WatchQuery(t) ==
    /\ fnPc = "watching"
    /\ fnRes.pc[t] = "query"
    /\ fnRes' = [ fnRes EXCEPT !.pc[t] =
                    IF ApprovalFilter([ approved |-> TRUE,
                                        applied |-> fnRes.applied ])
                    THEN "loop" ELSE "done" ]
    /\ UNCHANGED << fnArg, fnPc >>
    /\ UNCHANGED << pathVars, applyVars, sysVars, pollVars >>

\* patch.ts:253-305: validatePatch, then applyDiff; on success
\* markPatchApplied is sent, else an ERROR event is posted
WatchApplies(t) ==
    /\ fnPc = "watching"
    /\ fnRes.pc[t] = "loop"
    /\ IF ~validatePatch(WorkerCfg, fnArg).valid
       THEN fnRes' = [ fnRes EXCEPT !.pc[t] = "done", !.errors = @ + 1 ]
       ELSE LET result == applyDiff(WorkerCfg, fnRes.fs, ParseFullDiff(fnArg))
            IN  fnRes' = [ fnRes EXCEPT
                             !.fs = result.fs,
                             !.applies = Append(@, [ tick |-> t,
                                                     success |-> result.success ]),
                             !.errors = IF result.success THEN @ ELSE @ + 1,
                             !.pc[t] = IF result.success THEN "marking"
                                       ELSE "done" ]
    /\ UNCHANGED << fnArg, fnPc >>
    /\ UNCHANGED << pathVars, applyVars, sysVars, pollVars >>

\* patch.ts:283-293 with runner/index.ts:318-336: patch-applied sets
\* applied = true; markPatchApplied throws when its attempts fail
\* (supabase.ts:138-150) and the firing ends there
WatchMarked(t, stored) ==
    /\ fnPc = "watching"
    /\ fnRes.pc[t] = "marking"
    /\ fnRes' = [ fnRes EXCEPT !.applied = (@ \/ stored), !.pc[t] = "done" ]
    /\ UNCHANGED << fnArg, fnPc >>
    /\ UNCHANGED << pathVars, applyVars, sysVars, pollVars >>

NextWatch ==
    \/ \E t \in WatchTicks : WatchFire(t)
    \/ \E t \in WatchTicks : WatchQuery(t)
    \/ \E t \in WatchTicks : WatchApplies(t)
    \/ \E t \in WatchTicks, stored \in BOOLEAN : WatchMarked(t, stored)

SpecWatch == InitWatch /\ [][NextWatch]_vars

\* C36: a worker applies an approved patch at most once: no applyDiff is
\* started for a patch after an applyDiff of it has succeeded.
C36_AppliedAtMostOnce ==
    fnPc = "watching" =>
        \A i \in 1..Len(fnRes.applies) :
            fnRes.applies[i].success => i = Len(fnRes.applies)

\* C37: once a reject decision is recorded for a run, none of the run's
\* patches is marked approved or applied afterwards.
C37_RejectedStaysUnapproved ==
    [][ \A p \in PatchIds :
          ( \/ patches'[p].approved /\ ~patches[p].approved
            \/ patches'[p].applied /\ ~patches[p].applied ) =>
              RejectedEvent(patches'[p].run) \notin events ]_vars

\* C38: a patch's applied flag is true only if a worker's applyDiff of
\* that patch returned success.
C38_AppliedOnlyByWorker ==
    \A p \in PatchIds :
        patches[p].applied =>
            \E a \in applyLog : a.patch = p /\ a.success

\* patch p passed the watcher's validation, was applied by a worker's
\* applyDiff with success while approved, and is marked applied
AppliedByWatcher(p) ==
    /\ patches[p].applied
    /\ p \in validatedPatches
    /\ \E a \in applyLog : a.patch = p /\ a.success /\ a.approved

\* no request is being served, no executeRun and no checkApprovals call
\* is under way
Quiescent ==
    /\ \A c \in Slots : req[c].pc = "done"
    /\ \A w \in Workers : tick[w].pc = "idle" /\ wpc[w] \in { "idle", "finished" }

\* C39: an approved run whose patch passed validation and was applied
\* cleanly reaches completed: once the patch is marked applied, every
\* request has been served and the worker that executed the run is still
\* watching it, the run is not left in the status approved.
C39_ApprovedRunCompletes ==
    \A r \in Runs : \A p \in PatchIds :
        ( /\ patches[p].run = r
          /\ AppliedByWatcher(p)
          /\ Quiescent
          /\ \E w \in Workers : r \in watching[w]
          /\ runStatus[r] \in { "approved", "completed" } ) =>
              runStatus[r] = "completed"

\* ---------------------------------------------------------------------
\* POST /runner/update-run (runner/index.ts:258-292) applied to one
\* request body.  fnArg.row is the run's row before the request, a column
\* holding "old"; fnArg.body is the body without runId, a function from
\* the keys sent to their values; fnRes is the row after it.
\* ---------------------------------------------------------------------

\* runner/index.ts:261: the keys the handler takes from the body
DestructuredKeys ==
    { "status", "plan", "verification", "patches", "riskAssessment",
      "tool_calls", "impacted_files", "error" }

\* the keys a body is made of here: those, and the key executeRun sends
\* the risk under (runner.ts:222)
RequestKeys == DestructuredKeys \cup { "risk_assessment" }

\* runner/index.ts:271-278: the column a key of the body is written to
Column(k) == IF k = "riskAssessment" THEN "risk_assessment" ELSE k

RunColumns == { Column(k) : k \in DestructuredKeys }

\* the value sent under a key
BodyValue(k) ==
    IF k = "status" THEN "awaiting_approval"
    ELSE IF k \in { "riskAssessment", "risk_assessment" } THEN "risk"
    ELSE "new"

UpdateRunBodies ==
    { [ k \in keys |-> BodyValue(k) ] : keys \in SUBSET RequestKeys }

\* runner.ts:219-223: the body of the update that proposes the patch
ProposeBody ==
    [ k \in { "status", "patches", "risk_assessment" } |-> BodyValue(k) ]

\* runner/index.ts:270-283: the updates object built from the keys that
\* were taken and hold a value, and the row after update(updates)
UpdateRunRow(row, body) ==
    LET taken == DestructuredKeys \cap DOMAIN body
        updates == [ c \in { Column(k) : k \in taken } |->
                       body[CHOOSE k \in taken : Column(k) = c] ]
    IN  [ c \in RunColumns |->
            IF c \in DOMAIN updates THEN updates[c] ELSE row[c] ]

InitUpdateRun ==
    /\ PathIdle /\ ApplyIdle /\ SysIdle /\ PollIdle
    /\ fnArg \in [ row : { [ c \in RunColumns |-> "old" ] },
                   body : UpdateRunBodies ]
    /\ fnRes = << >>
    /\ fnPc = "call"

UpdateRunCall ==
    /\ fnPc = "call"
    /\ fnRes' = UpdateRunRow(fnArg.row, fnArg.body)
    /\ fnPc' = "done"
    /\ UNCHANGED fnArg
    /\ UNCHANGED << pathVars, applyVars, sysVars, pollVars >>

NextUpdateRun == UpdateRunCall

SpecUpdateRun == InitUpdateRun /\ [][NextUpdateRun]_vars

\* C40: the row stored by the update-run call that moves a run to
\* awaiting_approval holds the risk assessment sent with it, and a column
\* no key of a request names keeps its previous value.
C40_RiskStoredWithStatus ==
    fnPc = "done" =>
        /\ fnArg.body = ProposeBody =>
               /\ fnRes["status"] = "awaiting_approval"
               /\ fnRes["risk_assessment"] = fnArg.body["risk_assessment"]
        /\ \A c \in RunColumns :
               (\A k \in DOMAIN fnArg.body : Column(k) # c) =>
                   fnRes[c] = fnArg.row[c]

====
